---------------------------- MODULE Spec2Model ----------------------------
(***************************************************************************)
(* zerodhaDataCollector: the tick ingestion pipeline                       *)
(* (src/src/market_data_ticker.py) and the programs around it.             *)
(*                                                                         *)
(* The specifications share one state:                                     *)
(*                                                                         *)
(*   Spec         the callbacks driven by a connected feed client: tick    *)
(*                batches are delivered to on_ticks, which hands them to   *)
(*                bulk_replace: the pandas normalisation of the batch,     *)
(*                then the upsert of its rows into daily_table through     *)
(*                replace_sql_execute_many.  It starts where kws.connect() *)
(*                is running with the lookup dictionaries in place and     *)
(*                daily_table created as in the CREATE TABLE statement.    *)
(*                                                                         *)
(*   SpecSession  run_market_data_ticker from its call to its return or    *)
(*                raise, and the shutdown timer it arms.  As the module    *)
(*                is written the call never gets to kws.connect(): see     *)
(*                LookupTablesLoad.                                        *)
(*                                                                         *)
(*   SpecFeed     the feed client from kws.connect() on: deliveries,       *)
(*                disconnects and reconnects, and the shutdown timer.      *)
(*                                                                         *)
(*   SpecMain     the main block of src/src/market_data_main.py.           *)
(*                                                                         *)
(*   SpecBackup   run_daily_market_data_backup                             *)
(*                (src/daily_market_data_backup.py).                       *)
(*                                                                         *)
(*   SpecWorker   backup_one_instrument, the worker of the backup.         *)
(*                                                                         *)
(*   SpecRequest  request_broker_access_token                              *)
(*                (src/broker_access_token_request.py).                    *)
(*                                                                         *)
(*   SpecHoliday  check_trading_holiday                                    *)
(*                (src/src/check_trading_holiday.py).                      *)
(*                                                                         *)
(*   SpecRetry    the wrapper of retry_on_failure                          *)
(*                (src/utils/error_handler.py).                            *)
(*                                                                         *)
(*   SpecManager  threads constructing DatabaseManager                     *)
(*                (src/utils/db_manager.py).                               *)
(***************************************************************************)
EXTENDS Integers, Sequences, FiniteSets, TLC

(***************************************************************************)
(* Bounds of the model.                                                    *)
(***************************************************************************)
\* longest batch the feed client hands to on_ticks
MaxBatch == 2
\* number of on_ticks calls of one run
MaxWrites == 2
\* number of connections the feed client opens in one run
MaxConnections == 2

(***************************************************************************)
(* SQL NULL / Python None / pandas NaN after to_sql's conversion.  Every   *)
(* real value of the model is a positive integer.                          *)
(***************************************************************************)
NULL == 0 - 1

(***************************************************************************)
(* Instrument catalog: the three dictionaries bulk_replace closes over.    *)
(* Token 1 is an equity instrument, token 2 an index; both are in the      *)
(* equity universe list.  Token 3 is a Nifty option, token 4 a BankNifty   *)
(* option.  Token 9 is in no lookup table.  Names are coded as integers:   *)
(* 1xx trading symbols, 2xx table names, 3xx database names.               *)
(***************************************************************************)
equity_universe_tokens == {1, 2}

nifty_option_tokens == {3}

bank_nifty_option_tokens == {4}

\* equity_universe_tokens + nifty_option_tokens + bank_nifty_option_tokens
full_token_list ==
    equity_universe_tokens \cup nifty_option_tokens \cup bank_nifty_option_tokens

UnknownToken == 9

\* the symbol of an option is its table name
main_token_symbol_dict ==
    [t \in full_token_list |-> IF t \in equity_universe_tokens THEN 100 + t ELSE 200 + t]

main_token_table_dict == [t \in full_token_list |-> 200 + t]

equity_database_name == 301

options_database_name == 302

bank_nifty_options_database_name == 303

token_to_db_name_dict ==
    [t \in full_token_list |->
        IF t \in bank_nifty_option_tokens THEN bank_nifty_options_database_name
        ELSE IF t \in nifty_option_tokens THEN options_database_name
        ELSE equity_database_name]

\* Series.map(dict): the dictionary's value, NaN (stored as NULL) for a key
\* the dictionary does not hold.
MapDict(dict, key) == IF key \in DOMAIN dict THEN dict[key] ELSE NULL

(***************************************************************************)
(* Raw ticks, as KiteTicker hands them to on_ticks: dictionaries whose     *)
(* set of keys depends on the instrument class and on what the packet      *)
(* carried.                                                                *)
(***************************************************************************)
IndexFields ==
    {"tradable", "mode", "instrument_token", "last_price", "ohlc", "change",
     "exchange_timestamp"}

FullFields ==
    IndexFields \cup
    {"last_traded_quantity", "average_traded_price", "volume_traded",
     "total_buy_quantity", "total_sell_quantity", "last_trade_time", "oi",
     "oi_day_high", "oi_day_low", "depth"}

ShapeFields(shape) ==
    CASE shape = "full"         -> FullFields
      [] shape = "short_depth"  -> FullFields
      [] shape = "index"        -> IndexFields
      [] shape = "no_ohlc"      -> IndexFields \ {"ohlc"}
      [] shape = "no_price"     -> IndexFields \ {"last_price"}
      [] shape = "no_timestamp" -> IndexFields \ {"exchange_timestamp"}

\* number of order-book levels per side of a well-formed depth sub-record
DepthLevels == 5

\* levels per side a tick of the given shape carries
ShapeLevels(shape) == IF shape = "short_depth" THEN DepthLevels - 1 ELSE DepthLevels

Sides == {"buy", "sell"}

LevelKeys == {"quantity", "price", "orders"}

\* Distinct positive numbers for the scalar fields; v tells a resent tick
\* from the tick it replaces.
FieldBase(f) ==
    CASE f = "last_price"            -> 10
      [] f = "change"                -> 20
      [] f = "last_traded_quantity"  -> 30
      [] f = "average_traded_price"  -> 40
      [] f = "volume_traded"         -> 50
      [] f = "total_buy_quantity"    -> 60
      [] f = "total_sell_quantity"   -> 70
      [] f = "last_trade_time"       -> 80
      [] f = "oi"                    -> 90
      [] f = "oi_day_high"           -> 110
      [] f = "oi_day_low"            -> 120
      [] f = "open"                  -> 130
      [] f = "high"                  -> 140
      [] f = "low"                   -> 150
      [] f = "close"                 -> 160
      [] f = "quantity"              -> 1000
      [] f = "price"                 -> 2000
      [] f = "orders"                -> 3000
      [] OTHER                       -> 1

OhlcOf(v) == [k \in {"open", "high", "low", "close"} |-> FieldBase(k) + v]

LevelOf(side, i, v) ==
    [k \in LevelKeys |->
        FieldBase(k) + (IF side = "buy" THEN 100 ELSE 200) + 10 * i + v]

DepthOf(levels, v) ==
    [side \in Sides |-> [i \in 1..levels |-> LevelOf(side, i, v)]]

\* the event timestamp every tick of the model carries (when it carries one)
EventTime == 1

\* The raw tick described by e = [tok, shape, v].
Tick(e) ==
    [f \in ShapeFields(e.shape) |->
        CASE f = "instrument_token"   -> e.tok
          [] f = "exchange_timestamp" -> EventTime
          [] f = "ohlc"               -> OhlcOf(e.v)
          [] f = "depth"              -> DepthOf(ShapeLevels(e.shape), e.v)
          [] OTHER                    -> FieldBase(f) + e.v]

\* The kinds of ticks of the model.
Pool ==
    { [tok |-> 1, shape |-> "full", v |-> 1],
      [tok |-> 1, shape |-> "full", v |-> 2],
      [tok |-> 1, shape |-> "index", v |-> 2],
      [tok |-> 2, shape |-> "index", v |-> 1],
      [tok |-> UnknownToken, shape |-> "index", v |-> 1],
      [tok |-> 2, shape |-> "no_ohlc", v |-> 1],
      [tok |-> 2, shape |-> "no_price", v |-> 1],
      [tok |-> 2, shape |-> "no_timestamp", v |-> 1],
      [tok |-> 1, shape |-> "short_depth", v |-> 1] }

\* What the feed delivers during one run: ticks of two kinds (or of one).
Feeds == { {a, b} : a, b \in Pool }

\* the batches a feed can deliver
Batches(kinds) == UNION { [1..n -> kinds] : n \in 1..MaxBatch }

PoolTick == [e \in Pool |-> Tick(e)]

Ticks(batch) == [i \in 1..Len(batch) |-> PoolTick[batch[i]]]


(***************************************************************************)
(* daily_table: the columns of CREATE TABLE daily_table.                   *)
(***************************************************************************)
\* f"{side[0]}{key[0]}{i}" of get_depth_values, i = 0..4 stored at i + 1
DepthColName ==
    [buy |->
        [quantity |-> <<"bq0", "bq1", "bq2", "bq3", "bq4">>,
         price    |-> <<"bp0", "bp1", "bp2", "bp3", "bp4">>,
         orders   |-> <<"bo0", "bo1", "bo2", "bo3", "bo4">>],
     sell |->
        [quantity |-> <<"sq0", "sq1", "sq2", "sq3", "sq4">>,
         price    |-> <<"sp0", "sp1", "sp2", "sp3", "sp4">>,
         orders   |-> <<"so0", "so1", "so2", "so3", "so4">>]]

DepthCells == Sides \X LevelKeys \X (0..(DepthLevels - 1))

DepthCol(cell) == DepthColName[cell[1]][cell[2]][cell[3] + 1]

DepthColumns == { DepthCol(cell) : cell \in DepthCells }

\* the (side, key, index) a depth column is filled from
CellOf == [col \in DepthColumns |-> CHOOSE cell \in DepthCells : DepthCol(cell) = col]

OhlcColumns == {"open", "high", "low", "close"}

CatalogColumns == {"tradingsymbol", "tablename", "dbname"}

KeyColumns == {"instrument_token", "timestamp"}

TableColumns ==
    KeyColumns \cup CatalogColumns \cup OhlcColumns \cup DepthColumns \cup
    {"price", "qty", "avgPrice", "volume", "bQty", "sQty", "changeper",
     "lastTradeTime", "oi", "oiHigh", "oiLow"}

(***************************************************************************)
(* bulk_replace, normalisation part: the DataFrame built from the batch.   *)
(***************************************************************************)
\* ticks_df.rename(columns={...})
Rename(f) ==
    CASE f = "exchange_timestamp"    -> "timestamp"
      [] f = "last_price"            -> "price"
      [] f = "last_traded_quantity"  -> "qty"
      [] f = "average_traded_price"  -> "avgPrice"
      [] f = "volume_traded"         -> "volume"
      [] f = "total_buy_quantity"    -> "bQty"
      [] f = "total_sell_quantity"   -> "sQty"
      [] f = "last_trade_time"       -> "lastTradeTime"
      [] f = "change"                -> "changeper"
      [] f = "oi_day_high"           -> "oiHigh"
      [] f = "oi_day_low"            -> "oiLow"
      [] OTHER                       -> f

\* pd.DataFrame(ticks): one column per key that some tick of the batch has;
\* a tick without the key gets NaN in that column.
DataFrameColumns(ticks) == UNION { DOMAIN ticks[i] : i \in 1..Len(ticks) }

\* ticks_df['ohlc'].apply(lambda x: x.get(...)): KeyError when no tick of the
\* batch has an ohlc key, AttributeError on the NaN of a tick without one.
OhlcRaises(ticks) ==
    \/ "ohlc" \notin DataFrameColumns(ticks)
    \/ \E i \in 1..Len(ticks) : "ohlc" \notin DOMAIN ticks[i]

\* preprocess_depth: the depth dictionary, or {} for a cell that is no dict.
preprocess_depth(tick) ==
    IF "depth" \in DOMAIN tick
    THEN [empty |-> FALSE, levels |-> tick["depth"]]
    ELSE [empty |-> TRUE, levels |-> [side \in Sides |-> <<>>]]

\* extract_value: depth.get(side, [])[index] raises IndexError when the side
\* has no level at index; an empty dictionary is falsy and is not indexed.
ExtractRaises(tick, side, index) ==
    LET depth == preprocess_depth(tick)
    IN  ~depth.empty /\ index + 1 > Len(depth.levels[side])

\* extract_value: depth.get(side, [])[index].get(key, None) if depth else None
extract_value(tick, side, index, key) ==
    LET depth == preprocess_depth(tick)
    IN  IF depth.empty THEN NULL ELSE depth.levels[side][index + 1][key]

\* get_depth_values runs only when the DataFrame has a depth column.
DepthRaises(ticks) ==
    /\ "depth" \in DataFrameColumns(ticks)
    /\ \E i \in 1..Len(ticks), side \in Sides, index \in 0..(DepthLevels - 1) :
          ExtractRaises(ticks[i], side, index)

\* An exception raised between pd.DataFrame(ticks) and to_sql.
NormalizeRaises(ticks) == OhlcRaises(ticks) \/ DepthRaises(ticks)

\* The depth columns of the DataFrame: None in every row when the batch has
\* no depth column, get_depth_values otherwise.
DepthValue(has_depth_column, tick, col) ==
    IF ~has_depth_column
    THEN NULL
    ELSE LET cell == CellOf[col]
         IN  extract_value(tick, cell[1], cell[3], cell[2])

\* DataFrameKeys without the branch that fills the depth columns with None
\* when the batch has no depth column.
DataFrameKeys_DepthOmitted(ticks) ==
    { Rename(f) : f \in DataFrameColumns(ticks) \ {"ohlc", "depth", "tradable", "mode"} }
        \cup CatalogColumns \cup OhlcColumns
        \cup (IF "depth" \in DataFrameColumns(ticks) THEN DepthColumns ELSE {})

\* The columns of the DataFrame handed to to_sql (keys of the INSERT).
DataFrameKeys(ticks) ==
    { Rename(f) : f \in DataFrameColumns(ticks) \ {"ohlc", "depth", "tradable", "mode"} }
        \cup CatalogColumns \cup OhlcColumns \cup DepthColumns

\* the raw field a scalar column comes from
RawField ==
    [col \in { Rename(f) : f \in FullFields \ {"ohlc", "depth", "tradable", "mode"} } |->
        CHOOSE f \in FullFields : Rename(f) = col]

\* One row of the DataFrame handed to to_sql; NaN is written as NULL.
DataFrameRow(keys, has_depth_column, tick) ==
    [col \in keys |->
        CASE col = "tradingsymbol" -> MapDict(main_token_symbol_dict, tick["instrument_token"])
          [] col = "tablename"     -> MapDict(main_token_table_dict, tick["instrument_token"])
          [] col = "dbname"        -> MapDict(token_to_db_name_dict, tick["instrument_token"])
          [] col \in OhlcColumns   -> tick["ohlc"][col]
          [] col \in DepthColumns  -> DepthValue(has_depth_column, tick, col)
          [] OTHER ->
                IF RawField[col] \in DOMAIN tick THEN tick[RawField[col]] ELSE NULL]

DataFrameRows(ticks) ==
    LET keys == DataFrameKeys(ticks)
        has_depth_column == "depth" \in DataFrameColumns(ticks)
    IN  [i \in 1..Len(ticks) |-> DataFrameRow(keys, has_depth_column, ticks[i])]

(***************************************************************************)
(* replace_sql_execute_many: INSERT ... ON CONFLICT (instrument_token,     *)
(* timestamp) DO UPDATE SET col = EXCLUDED.col for the DataFrame's         *)
(* columns, one statement execution per row, one commit for the batch.     *)
(***************************************************************************)
\* The stored row the UNIQUE (instrument_token, timestamp) index matches
\* with the inserted row, 0 if none.  A NULL in either key column never
\* matches: the index treats NULLs as distinct.
ConflictIndex(table, row) ==
    LET hits == { i \in 1..Len(table) :
                    /\ row["instrument_token"] # NULL
                    /\ row["timestamp"] # NULL
                    /\ table[i]["instrument_token"] = row["instrument_token"]
                    /\ table[i]["timestamp"] = row["timestamp"] }
    IN  IF hits = {} THEN 0 ELSE CHOOSE i \in hits : TRUE

\* the inserted tuple: the statement's columns, NULL for the others
InsertedRow(keys, data_row) ==
    [col \in TableColumns |-> IF col \in keys THEN data_row[col] ELSE NULL]

\* the SET clauses: every column of the statement but the conflict columns
SetClauses(keys) == keys \ KeyColumns

\* One execution of the statement.
Upsert(table, keys, data_row) ==
    LET new == InsertedRow(keys, data_row)
        i   == ConflictIndex(table, new)
    IN  IF i = 0
        THEN Append(table, new)
        ELSE [table EXCEPT ![i] =
                 [col \in TableColumns |->
                     IF col \in SetClauses(keys) THEN new[col] ELSE @[col]]]

\* cursor.executemany up to and including row n
RECURSIVE ExecuteMany(_, _, _, _)
ExecuteMany(table, keys, data, n) ==
    IF n = 0
    THEN table
    ELSE Upsert(ExecuteMany(table, keys, data, n - 1), keys, data[n])

\* replace_sql_execute_many on a connection that commits every statement.
replace_sql_autocommit(table, keys, data, completed) ==
    ExecuteMany(table, keys, data,
                IF completed > Len(data) THEN Len(data) ELSE completed)

\* The table after the call when `completed` of its Len(data) + 1 steps (the
\* row executions, then the commit) ran before the database raised: the
\* transaction's rows are visible only once the commit has run.
replace_sql_execute_many(table, keys, data, completed) ==
    IF completed = Len(data) + 1
    THEN ExecuteMany(table, keys, data, Len(data))
    ELSE table

(***************************************************************************)
(* State.                                                                  *)
(***************************************************************************)
VARIABLES
    feed,              \* the kinds of ticks the feed delivers in this run
    daily_table,       \* committed rows of daily_table, in insertion order
    prev_table,        \* daily_table when the last on_ticks call began
    last_batch,        \* the batch of the last on_ticks call
    last_completed,    \* database steps of that call that ran before a raise
    last_outcome,      \* "none", "ok", "normalize_error" or "write_error"
    writes,            \* on_ticks calls so far
    mails,             \* subjects handed to send_market_data_email
    errors_logged,     \* messages handed to logger.log_error
    kws,               \* the feed client: "unbound", "connected",
                       \* "reconnecting", "stopping", "stopped"
    requests,          \* requests sent to the feed on the current connection
    connections,       \* connections the feed client has opened
    in_flight,         \* batches handed to on_ticks whose call has not returned
    last_received,     \* the batch most recently handed to on_ticks
    broker_tokens,     \* rows of the table broker_tokens, latest first
    main_pc,           \* where the main block of market_data_main is
    main_steps,        \* the functions the main block has called, in order
    checks,            \* what each pre-check does when it is called
    backup_pc,         \* where run_daily_market_data_backup is
    backup_inputs,     \* what the steps before the backup proper do
    backup_success_tokens, \* instrument tokens read from backup_success_tables
    daily_table_dropped,   \* DROP TABLE daily_table was run and committed
    instrument_tables,     \* committed rows of the per-instrument tables
    backup_success_tables, \* the committed table backup_success_tables
    worker_calls,          \* the calls of backup_one_instrument so far
    request_pc,        \* where request_broker_access_token is
    wrapper_attempt,   \* attempt of the retry_on_failure wrapper around it
    attempt,           \* attempt of its login loop
    failed_logins,     \* login attempts of this call that raised
    token_stored,      \* this call obtained an access token and stored it
    holiday_pc,        \* where check_trading_holiday is
    holiday_inputs,    \* the day, and what the holiday sources answer
    holiday_file,      \* the local file trading_holidays.csv
    retry_pc,          \* where the wrapper of retry_on_failure is
    retry_inputs,      \* max_attempts, delay and exceptions of the decorator
    retry_attempt,     \* attempt of the wrapper's loop
    retry_log,         \* what each call of the wrapped function did
    retry_slept,       \* the calls after which the wrapper slept
    retry_waited,      \* the time the wrapper slept in all
    last_exception,    \* last_exception of the wrapper
    retry_result,      \* what the wrapper returned or raised
    cls_instance,      \* DatabaseManager._instance: 0 for None, or an object
    cls_lock,          \* the thread that holds DatabaseManager._lock, or 0
    instances,         \* objects made by super().__new__(cls) so far
    instance_pool,     \* the attribute pool of each object: 0 when not set
    pools,             \* the arguments of each connection pool created
    threads,           \* where each thread is in DatabaseManager(...)
    pc,                \* where run_market_data_ticker is
    now,               \* wall clock read by dt.now()
    shutdown_hour,     \* arguments of run_market_data_ticker
    shutdown_minute,
    shutdown_timer,    \* "unarmed", "armed", "fired"
    catalog_loaded,    \* the lookup tables were read
    access_token       \* "not_fetched", "none", "token"

writer_vars ==
    <<daily_table, prev_table, last_batch, last_completed, last_outcome, writes>>

session_vars ==
    <<pc, now, shutdown_hour, shutdown_minute, shutdown_timer, catalog_loaded,
      access_token, broker_tokens>>

client_vars == <<requests, connections, in_flight, last_received>>

ticker_vars == <<feed, writer_vars, session_vars, client_vars, kws>>

main_vars == <<main_pc, main_steps, checks>>

backup_vars ==
    <<backup_pc, backup_inputs, backup_success_tokens, daily_table_dropped,
      instrument_tables, backup_success_tables, worker_calls>>

request_vars ==
    <<request_pc, wrapper_attempt, attempt, failed_logins, token_stored>>

\* the variables of the programs other than market_data_ticker
holiday_vars == <<holiday_pc, holiday_inputs, holiday_file>>

\* the variables of the programs and utilities modelled after the first four
retry_vars ==
    <<retry_pc, retry_inputs, retry_attempt, retry_log, retry_slept,
      retry_waited, last_exception, retry_result>>

manager_vars ==
    <<cls_instance, cls_lock, instances, instance_pool, pools, threads>>

other_vars == <<holiday_vars, retry_vars, manager_vars>>

outside_vars == <<main_vars, backup_vars, request_vars, other_vars>>

vars == <<ticker_vars, outside_vars, mails, errors_logged>>

\* market_data_main is not running
MainIdle ==
    /\ main_pc = "not_started"
    /\ main_steps = <<>>
    /\ checks = <<>>

\* the database has no table backup_success_tables
NoTable == [exists |-> FALSE, tokens |-> <<>>]

\* daily_market_data_backup is not running
BackupIdle ==
    /\ backup_pc = "idle"
    /\ backup_inputs = <<>>
    /\ backup_success_tokens = {}
    /\ daily_table_dropped = FALSE
    /\ instrument_tables = <<>>
    /\ backup_success_tables = NoTable
    /\ worker_calls = <<>>

\* trading_holidays.csv does not exist
NoFile == [exists |-> FALSE, fresh |-> FALSE, readable |-> FALSE, dates |-> {}]

\* check_trading_holiday is not running
HolidayIdle ==
    /\ holiday_pc = "idle"
    /\ holiday_inputs = <<>>
    /\ holiday_file = NoFile

\* no value: before a return, before an exception
None == [kind |-> "none"]

\* no function wrapped by retry_on_failure is running
RetryIdle ==
    /\ retry_pc = "idle"
    /\ retry_inputs = <<>>
    /\ retry_attempt = 0
    /\ retry_log = <<>>
    /\ retry_slept = {}
    /\ retry_waited = 0
    /\ last_exception = None
    /\ retry_result = None

\* the class DatabaseManager is not loaded
ManagerIdle ==
    /\ cls_instance = 0
    /\ cls_lock = 0
    /\ instances = 0
    /\ instance_pool = <<>>
    /\ pools = <<>>
    /\ threads = <<>>

OthersIdle ==
    /\ HolidayIdle
    /\ RetryIdle
    /\ ManagerIdle

\* broker_access_token_request is not running
RequestIdle ==
    /\ request_pc = "idle"
    /\ wrapper_attempt = 0
    /\ attempt = 0
    /\ failed_logins = 0
    /\ token_stored = FALSE

(***************************************************************************)
(* The table broker_tokens.  A row is an access token and the timestamp of *)
(* its INSERT; timestamps are hours counted from midnight of the day       *)
(* before the run.                                                         *)
(***************************************************************************)
HoursPerDay == 24

\* the timestamp of the given hour of the day of the run
Today(hour) == HoursPerDay + hour

\* the timestamp of the given hour of the day before
Yesterday(hour) == hour

\* INSERT INTO broker_tokens VALUES (timestamp, ..., access_token)
BrokerToken(timestamp) == [access_token |-> "token", timestamp |-> timestamp]

(***************************************************************************)
(* on_ticks -> bulk_replace                                                *)
(***************************************************************************)
\* an except clause that stops the feed client
bulk_replace_except_stops(client) == "stopped"

\* the except clause of bulk_replace: the exception is logged, handed to
\* ErrorHandler and mailed, and bulk_replace returns; the feed client is
\* not touched.
bulk_replace_except(client) == client

\* how the call ended
Outcome(ticks, completed) ==
    IF NormalizeRaises(ticks) THEN "normalize_error"
    ELSE IF completed = Len(ticks) + 1 THEN "ok"
    ELSE "write_error"

\* daily_table after bulk_replace(ticks): unchanged when the normalisation
\* raised (to_sql is not reached), the result of to_sql otherwise.
bulk_replace(table, ticks, completed) ==
    IF NormalizeRaises(ticks)
    THEN table
    ELSE replace_sql_execute_many(table, DataFrameKeys(ticks),
                                  DataFrameRows(ticks), completed)

\* the feed client when the call bulk_replace(ticks) has returned
ClientAfter(ticks, completed) ==
    IF Outcome(ticks, completed) = "ok" THEN kws ELSE bulk_replace_except(kws)

\* the call bulk_replace(ticks) from its first line to its return: the
\* table, and the log and the mail of the except clause
bulk_replace_call(batch, completed) ==
    LET ticks   == Ticks(batch)
        outcome == Outcome(ticks, completed)
    IN  /\ writes' = writes + 1
        /\ prev_table' = daily_table
        /\ last_batch' = batch
        /\ last_completed' = IF outcome = "normalize_error" THEN 0 ELSE completed
        /\ last_outcome' = outcome
        /\ daily_table' = bulk_replace(daily_table, ticks, completed)
        /\ IF outcome = "ok"
           THEN UNCHANGED <<mails, errors_logged>>
           ELSE /\ errors_logged' = Append(errors_logged, "bulk_replace failed")
                /\ mails' = Append(mails, "Dump Failed")

on_ticks(batch, completed) ==
    /\ kws = "connected"
    /\ writes < MaxWrites
    /\ bulk_replace_call(batch, completed)
    /\ kws' = ClientAfter(Ticks(batch), completed)
    /\ UNCHANGED <<feed, session_vars, client_vars, outside_vars>>

\* The database steps of a call that can have run before a raise: none when
\* to_sql is not reached, any number of the row executions, or all of them
\* and the commit.
CompletedSteps(batch) ==
    IF NormalizeRaises(Ticks(batch)) THEN {0} ELSE 0..(Len(batch) + 1)

OnTicks ==
    \E batch \in Batches(feed) :
        \E completed \in CompletedSteps(batch) : on_ticks(batch, completed)

(***************************************************************************)
(* on_connect: called by the feed client each time it has opened a         *)
(* connection.  A new connection carries no subscription; what it carries  *)
(* afterwards is what on_connect has sent on it.                           *)
(***************************************************************************)
MODE_FULL == "full"

\* ws.subscribe(instrument_tokens): one request for the whole list
subscribe(instrument_tokens) ==
    [request |-> "subscribe", tokens |-> instrument_tokens]

\* ws.set_mode(mode, instrument_tokens)
set_mode(mode, instrument_tokens) ==
    [request |-> "mode", mode |-> mode, tokens |-> instrument_tokens]

\* an on_connect that subscribes on the first connection only
on_connect_first_only(connection) ==
    IF connection = 1
    THEN <<subscribe(full_token_list), set_mode(MODE_FULL, full_token_list)>>
    ELSE <<>>

\* the requests on_connect sends on the connection-th connection
on_connect(connection) ==
    <<subscribe(full_token_list), set_mode(MODE_FULL, full_token_list)>>

(***************************************************************************)
(* Spec: the feed client is connected and delivers batches.                *)
(***************************************************************************)
Init ==
    /\ feed \in Feeds
    /\ daily_table = <<>>
    /\ prev_table = <<>>
    /\ last_batch = <<>>
    /\ last_completed = 0
    /\ last_outcome = "none"
    /\ writes = 0
    /\ mails = <<>>
    /\ errors_logged = <<>>
    /\ kws = "connected"
    /\ pc = "connect"
    /\ now = [hour |-> 9, minute |-> 0, second |-> 0]
    /\ shutdown_hour = 15
    /\ shutdown_minute = 35
    /\ shutdown_timer = "armed"
    /\ catalog_loaded = TRUE
    /\ access_token = "token"
    /\ broker_tokens = <<BrokerToken(Today(9))>>
    /\ requests = on_connect(1)
    /\ connections = 1
    /\ in_flight = <<>>
    /\ last_received = <<>>
    /\ MainIdle
    /\ BackupIdle
    /\ RequestIdle
    /\ OthersIdle

Next == OnTicks

Spec == Init /\ [][Next]_vars

(***************************************************************************)
(* run_market_data_ticker and the shutdown timer                           *)
(***************************************************************************)
\* wall-clock readings and configured close times of the model
Hours == {9, 15, 16}

Minutes == {0, 35}

Seconds == {0, 30}

Clock == [hour : Hours, minute : Minutes, second : Seconds]

SecondsOfDay(t) == t.hour * 3600 + t.minute * 60 + t.second

\* now.replace(hour=shutdown_hour, minute=shutdown_minute, second=0, microsecond=0)
ShutdownTime(hour, minute) == [hour |-> hour, minute |-> minute, second |-> 0]

\* (shutdown_time - now).total_seconds()
RunDuration(t, hour, minute) ==
    SecondsOfDay(ShutdownTime(hour, minute)) - SecondsOfDay(t)

\* the guard with the comparison turned around
CloseTimeInPast_Flipped(run_duration) == run_duration > 0

\* if run_duration < 0
CloseTimeInPast(run_duration) == run_duration < 0

\* path.join(lookup_dir, ...): the module imports os but binds no name
\* `path`, so reading the first lookup table raises NameError.  The
\* statement is outside every try block: the exception leaves
\* run_market_data_ticker, and nothing after it (the catalog, the access
\* token, KiteTicker, connect) runs.
LookupTablesLoad == "NameError"

\* broker_token_manager.get_latest_access_token(): the access_token of the
\* latest row of broker_tokens, None when the table has no row.
get_latest_access_token(tokens) ==
    IF tokens = <<>> THEN "none" ELSE Head(tokens).access_token

\* run_market_data_ticker(shutdown_hour, shutdown_minute): to its return
\* or raise, or, when kws.connect() is reached, to the point where the
\* feed client has opened the connection and called on_connect.
RunMarketDataTicker ==
    /\ pc = "not_called"
    /\ IF CloseTimeInPast(RunDuration(now, shutdown_hour, shutdown_minute))
       THEN /\ errors_logged' = Append(errors_logged, "close time in the past")
            /\ pc' = "returned_False"
            /\ UNCHANGED <<shutdown_timer, catalog_loaded, access_token, mails,
                           kws, requests, connections>>
       ELSE /\ shutdown_timer' = "armed"
            /\ IF LookupTablesLoad # "ok"
               THEN /\ pc' = "raised_" \o LookupTablesLoad
                    /\ UNCHANGED <<catalog_loaded, access_token, mails,
                                   errors_logged, kws, requests, connections>>
               ELSE LET token == get_latest_access_token(broker_tokens)
                    IN  /\ catalog_loaded' = TRUE
                        /\ access_token' = token
                        /\ IF token = "none"
                           THEN \* raise Exception("No access token found in
                                \* database"), caught by the except clause
                                /\ errors_logged' = Append(errors_logged, "Dump Failed")
                                /\ mails' = Append(mails, "Dump Failed")
                                /\ pc' = "returned_None"
                                /\ UNCHANGED <<kws, requests, connections>>
                           ELSE \* kws = KiteTicker(api_key, access_token);
                                \* kws.connect()
                                /\ kws' = "connected"
                                /\ connections' = 1
                                /\ requests' = on_connect(1)
                                /\ pc' = "connect"
                                /\ UNCHANGED <<mails, errors_logged>>
    /\ UNCHANGED <<now, shutdown_hour, shutdown_minute, broker_tokens, in_flight,
                   last_received>>
    /\ UNCHANGED <<feed, writer_vars, outside_vars>>

\* a stop that tears the connection down at once
kws_stop_at_once(calls) == "stopped"

\* kws.close() in place of kws.stop(): the connection is closed and the
\* feed client, whose event loop still runs, reconnects
kws_close(calls) == "reconnecting"

\* kws.stop() stops the event loop of the feed client.  The loop runs the
\* callbacks; a callback that is running returns before the loop ends.
kws_stop(calls) == IF calls = <<>> THEN "stopped" ELSE "stopping"

\* shutdown_ticker, run by the Timer thread: kws.stop() inside try/except.
\* kws is a variable of run_market_data_ticker that is bound only by
\* kws = KiteTicker(...); while it is unbound kws.stop() raises NameError,
\* which the except clause logs and mails.  When the event loop has ended
\* kws.connect() returns, and run_market_data_ticker with it.
ShutdownTicker ==
    /\ shutdown_timer = "armed"
    /\ shutdown_timer' = "fired"
    /\ IF kws \in {"connected", "reconnecting"}
       THEN /\ kws' = kws_stop(in_flight)
            /\ pc' = IF kws' = "stopped" THEN "returned_None" ELSE pc
            /\ UNCHANGED <<errors_logged, mails>>
       ELSE /\ errors_logged' = Append(errors_logged, "Ticker Could not be stopped")
            /\ mails' = Append(mails, "Ticker Could not be stopped")
            /\ UNCHANGED <<kws, pc>>
    /\ UNCHANGED <<now, shutdown_hour, shutdown_minute, catalog_loaded,
                   access_token, broker_tokens>>
    /\ UNCHANGED <<feed, writer_vars, client_vars, outside_vars>>

InitSession ==
    /\ feed = {}
    /\ daily_table = <<>>
    /\ prev_table = <<>>
    /\ last_batch = <<>>
    /\ last_completed = 0
    /\ last_outcome = "none"
    /\ writes = 0
    /\ mails = <<>>
    /\ errors_logged = <<>>
    /\ kws = "unbound"
    /\ pc = "not_called"
    /\ now \in Clock
    /\ shutdown_hour \in Hours
    /\ shutdown_minute \in Minutes
    /\ shutdown_timer = "unarmed"
    /\ catalog_loaded = FALSE
    /\ access_token = "not_fetched"
    /\ broker_tokens \in {<<>>, <<BrokerToken(Today(now.hour))>>}
    /\ requests = <<>>
    /\ connections = 0
    /\ in_flight = <<>>
    /\ last_received = <<>>
    /\ MainIdle
    /\ BackupIdle
    /\ RequestIdle
    /\ OthersIdle

NextSession == RunMarketDataTicker \/ ShutdownTicker

SpecSession == InitSession /\ [][NextSession]_vars

(***************************************************************************)
(* SpecFeed: the life of the feed client between kws.connect() and the end *)
(* of its event loop.  kws.connect() is called without threaded=True: the  *)
(* event loop runs in the calling thread and runs the callbacks on_ticks   *)
(* and on_connect there, one at a time; the Timer thread runs              *)
(* shutdown_ticker beside it.  KiteTicker is built with its default        *)
(* reconnect=True: after a transport disconnect it opens a new connection  *)
(* and calls on_connect again.  on_close is defined but never assigned to  *)
(* kws, so no callback runs on a close.  A call of on_ticks is split in    *)
(* two steps, its start and its return, so that the timer can fire in      *)
(* between.                                                                *)
(***************************************************************************)
\* tokens the current connection is subscribed to
SubscribedTokens(sent) ==
    UNION { sent[i].tokens : i \in { j \in 1..Len(sent) : sent[j].request = "subscribe" } }

\* an on_ticks that hands the batch to a worker thread
CallbackMayStart_Threaded(calls) == Len(calls) < 2

\* on_ticks calls bulk_replace(ticks) and returns when it has returned;
\* the event loop starts the next callback after that.
CallbackMayStart(calls) == calls = <<>>

\* seq without its i-th element
RemoveAt(seq, i) ==
    [j \in 1..(Len(seq) - 1) |-> IF j < i THEN seq[j] ELSE seq[j + 1]]

\* the feed client calls on_ticks(ws, ticks) with a batch of ticks of
\* subscribed instruments
OnTicksCalled ==
    /\ kws = "connected"
    /\ CallbackMayStart(in_flight)
    /\ writes + Len(in_flight) < MaxWrites
    /\ \E batch \in Batches(feed) :
          /\ \A i \in 1..Len(batch) :
                PoolTick[batch[i]]["instrument_token"] \in SubscribedTokens(requests)
          /\ in_flight' = Append(in_flight, batch)
          /\ last_received' = batch
    /\ UNCHANGED <<feed, writer_vars, session_vars, requests, connections,
                   mails, errors_logged, kws, outside_vars>>

\* bulk_replace(ticks) returns, and on_ticks with it; an event loop that
\* was asked to stop meanwhile ends, and kws.connect() returns.
OnTicksReturns ==
    /\ in_flight # <<>>
    /\ \E i \in 1..Len(in_flight) :
          \E completed \in CompletedSteps(in_flight[i]) :
             LET client == ClientAfter(Ticks(in_flight[i]), completed)
                 rest   == RemoveAt(in_flight, i)
             IN  /\ bulk_replace_call(in_flight[i], completed)
                 /\ in_flight' = rest
                 /\ kws' = IF client = "stopping" /\ rest = <<>>
                            THEN "stopped" ELSE client
                 /\ pc' = IF kws' = "stopped" THEN "returned_None" ELSE pc
    /\ UNCHANGED <<feed, now, shutdown_hour, shutdown_minute, shutdown_timer,
                   catalog_loaded, access_token, broker_tokens, requests,
                   connections, last_received, outside_vars>>

\* the transport is lost; the subscription is lost with it
Disconnect ==
    /\ kws = "connected"
    /\ in_flight = <<>>
    /\ connections < MaxConnections
    /\ kws' = "reconnecting"
    /\ requests' = <<>>
    /\ UNCHANGED <<feed, writer_vars, session_vars, connections, in_flight,
                   last_received, mails, errors_logged, outside_vars>>

\* the feed client has opened a new connection and calls on_connect
Reconnect ==
    /\ kws = "reconnecting"
    /\ kws' = "connected"
    /\ connections' = connections + 1
    /\ requests' = on_connect(connections + 1)
    /\ UNCHANGED <<feed, writer_vars, session_vars, in_flight, last_received,
                   mails, errors_logged, outside_vars>>

\* ticks of one instrument and one second: two full ticks, or a full tick
\* and a tick with the fields of an index tick
LifecycleFeeds ==
    { { [tok |-> 1, shape |-> "full", v |-> 1], [tok |-> 1, shape |-> "full", v |-> 2] },
      { [tok |-> 1, shape |-> "full", v |-> 1], [tok |-> 1, shape |-> "index", v |-> 2] } }

InitFeed ==
    /\ feed \in LifecycleFeeds
    /\ daily_table = <<>>
    /\ prev_table = <<>>
    /\ last_batch = <<>>
    /\ last_completed = 0
    /\ last_outcome = "none"
    /\ writes = 0
    /\ mails = <<>>
    /\ errors_logged = <<>>
    /\ kws = "connected"
    /\ pc = "connect"
    /\ now = [hour |-> 9, minute |-> 0, second |-> 0]
    /\ shutdown_hour = 15
    /\ shutdown_minute = 35
    /\ shutdown_timer = "armed"
    /\ catalog_loaded = TRUE
    /\ access_token = "token"
    /\ broker_tokens = <<BrokerToken(Today(9))>>
    /\ requests = on_connect(1)
    /\ connections = 1
    /\ in_flight = <<>>
    /\ last_received = <<>>
    /\ MainIdle
    /\ BackupIdle
    /\ RequestIdle
    /\ OthersIdle

NextFeed ==
    OnTicksCalled \/ OnTicksReturns \/ Disconnect \/ Reconnect \/ ShutdownTicker

SpecFeed == InitFeed /\ [][NextFeed]_vars

(***************************************************************************)
(* SpecMain: the main block of market_data_main.py.  The pre-checks are    *)
(* functions of other modules; what each of them does when called is an    *)
(* input: it returns True or False, raises, or (the two that download the  *)
(* instrument file) ends the process with sys.exit().  sys.exit() raises   *)
(* SystemExit, which `except Exception` does not catch.                    *)
(***************************************************************************)
\* the ticker is not running; daily_table and broker_tokens are what
\* earlier runs left
TickerIdle ==
    /\ feed = {}
    /\ prev_table = <<>>
    /\ last_batch = <<>>
    /\ last_completed = 0
    /\ last_outcome = "none"
    /\ writes = 0
    /\ kws = "unbound"
    /\ pc = "not_called"
    /\ shutdown_hour = 15
    /\ shutdown_minute = 35
    /\ shutdown_timer = "unarmed"
    /\ catalog_loaded = FALSE
    /\ access_token = "not_fetched"
    /\ requests = <<>>
    /\ connections = 0
    /\ in_flight = <<>>
    /\ last_received = <<>>

Returns == {"True", "False", "raise"}

ReturnsOrExits == Returns \cup {"exit"}

\* How a call of run_market_data_ticker ends: it returns None when the
\* event loop of a session has ended ("stopped") and when the start failed
\* in its try block ("failed"), False when the close time is past
\* ("refused"), or raises.
TickerReturns == {"stopped", "failed", "refused", "raise"}

CheckOutcomes ==
    [is_trading_holiday : Returns,
     system_config_is_default : Returns,
     access_token_success : Returns,
     equity_universe_update_success : ReturnsOrExits,
     lookup_table_creation_success : ReturnsOrExits,
     run_market_data_ticker : TickerReturns]

\* except Exception as e: the failure is logged and mailed, and the block
\* ends
MainExcept ==
    /\ errors_logged' = Append(errors_logged, "Market Data Main Failed")
    /\ mails' = Append(mails, "Market Data Main Failed")
    /\ main_pc' = "failed"

\* one pre-check: the function is called; when it raises the except clause
\* runs; when its result is the failing one the failure is logged (and
\* mailed, for the checks that mail) and sys.exit() ends the process; else
\* the block goes on to the next check.
PreCheck(function, outcome, failed, subject, mailed, next) ==
    /\ main_steps' = Append(main_steps, function)
    /\ CASE outcome = "raise" -> MainExcept
         [] outcome = "exit" ->
               /\ main_pc' = "exited"
               /\ UNCHANGED <<mails, errors_logged>>
         [] outcome \in {"True", "False"} /\ failed ->
               /\ main_pc' = "exited"
               /\ errors_logged' = Append(errors_logged, subject)
               /\ mails' = IF mailed THEN Append(mails, subject) ELSE mails
         [] OTHER ->
               /\ main_pc' = next
               /\ UNCHANGED <<mails, errors_logged>>
    /\ UNCHANGED <<checks, ticker_vars, backup_vars, request_vars, other_vars>>

\* is_trading_holiday = check_trading_holiday(str(date.today()));
\* if is_trading_holiday: ... sys.exit()
MainHolidayCheck ==
    /\ main_pc = "start"
    /\ PreCheck("check_trading_holiday", checks.is_trading_holiday,
                checks.is_trading_holiday = "True",
                "Trading Holiday", TRUE, "config_check")

\* system_config_is_default = is_system_config_default();
\* if system_config_is_default: ... sys.exit()
MainConfigCheck ==
    /\ main_pc = "config_check"
    /\ PreCheck("is_system_config_default", checks.system_config_is_default,
                checks.system_config_is_default = "True",
                "invalid default values", FALSE, "token_request")

\* a main block that goes on whatever request_broker_access_token returned
AccessTokenFailed_Ignored(access_token_success) == FALSE

\* if not access_token_success
AccessTokenFailed(access_token_success) == access_token_success = "False"

\* access_token_success = request_broker_access_token();
\* if not access_token_success: ... sys.exit()
MainAccessTokenRequest ==
    /\ main_pc = "token_request"
    /\ PreCheck("request_broker_access_token", checks.access_token_success,
                AccessTokenFailed(checks.access_token_success),
                "broker_access_token_request Failed", TRUE, "universe_update")

\* equity_universe_update_success = update_equity_universe();
\* if not equity_universe_update_success: ... sys.exit()
MainUniverseUpdate ==
    /\ main_pc = "universe_update"
    /\ PreCheck("update_equity_universe", checks.equity_universe_update_success,
                checks.equity_universe_update_success = "False",
                "equity_universe_updater Failed", TRUE, "lookup_tables")

\* lookup_table_creation_success = create_instrument_lookup_tables();
\* if not lookup_table_creation_success: ... sys.exit()
MainLookupTables ==
    /\ main_pc = "lookup_tables"
    /\ PreCheck("create_instrument_lookup_tables",
                checks.lookup_table_creation_success,
                checks.lookup_table_creation_success = "False",
                "instrument_lookup_tables_creator Failed", TRUE, "all_passed")

\* market_close_hour and market_close_minute are names of
\* market_data_ticker; market_data_main imports run_market_data_ticker only
\* and binds neither, so the message of line 99 raises NameError before
\* the ticker is called.
MainCloseTime == "NameError"

\* elif (not is_trading_holiday) and access_token_success and ...: the
\* message with the close time, the mail, the ticker, then the backup,
\* whatever the ticker returned.  An exception of the ticker goes to the
\* except clause.
MainTickerAndBackup ==
    /\ main_pc = "all_passed"
    /\ checks.is_trading_holiday = "False"
    /\ checks.access_token_success = "True"
    /\ checks.equity_universe_update_success = "True"
    /\ checks.lookup_table_creation_success = "True"
    /\ IF MainCloseTime # "ok"
       THEN /\ MainExcept
            /\ UNCHANGED main_steps
       ELSE IF checks.run_market_data_ticker = "raise"
       THEN /\ main_steps' = Append(main_steps, "run_market_data_ticker")
            /\ errors_logged' = Append(errors_logged, "Market Data Main Failed")
            /\ mails' = mails \o <<"Ticker Started", "Market Data Main Failed">>
            /\ main_pc' = "failed"
       ELSE /\ main_steps' = main_steps \o <<"run_market_data_ticker",
                                              "run_daily_market_data_backup">>
            /\ mails' = Append(mails, "Ticker Started")
            /\ main_pc' = "done"
            /\ UNCHANGED errors_logged
    /\ UNCHANGED <<checks, ticker_vars, backup_vars, request_vars, other_vars>>

InitMain ==
    /\ TickerIdle
    /\ now = [hour |-> 9, minute |-> 0, second |-> 0]
    /\ broker_tokens = <<>>
    /\ daily_table = <<>>
    /\ BackupIdle
    /\ RequestIdle
    /\ OthersIdle
    /\ main_pc = "start"
    /\ main_steps = <<>>
    /\ checks \in CheckOutcomes
    /\ mails = <<>>
    /\ errors_logged = <<>>

NextMain ==
    \/ MainHolidayCheck
    \/ MainConfigCheck
    \/ MainAccessTokenRequest
    \/ MainUniverseUpdate
    \/ MainLookupTables
    \/ MainTickerAndBackup

SpecMain == InitMain /\ [][NextMain]_vars

(***************************************************************************)
(* SpecBackup: run_daily_market_data_backup, from its call to its return.  *)
(* It starts with the ticker at rest and daily_table as a run of the       *)
(* ticker can have left it.  The function opens one connection (psycopg2,  *)
(* no autocommit): what it executes is committed by connection.commit()    *)
(* only, and is rolled back when the connection is closed without it.      *)
(***************************************************************************)
\* index_token_list.csv: the index instruments
index_tokens == {2}

\* full_token_list of daily_market_data_backup: index_tokens +
\* equity_universe_tokens + nifty_option_tokens + bank_nifty_option_tokens
backup_full_token_list == index_tokens \cup full_token_list

\* SELECT DISTINCT(instrument_token) FROM daily_table
instrument_tokens_to_store(table) ==
    { table[i]["instrument_token"] : i \in 1..Len(table) }

\* set(instrument_tokens_to_store).intersection(full_token_list)
subscribed_tokens_in_daily_table(table) ==
    instrument_tokens_to_store(table) \cap backup_full_token_list

\* set(subscribed_tokens_in_daily_table).difference(backup_success_tokens)
backup_failed_token_list(table, success_tokens) ==
    subscribed_tokens_in_daily_table(table) \ success_tokens

(***************************************************************************)
(* backup_one_instrument: one worker, on a connection of its own (psycopg2,*)
(* no autocommit).  Its statements are one transaction: they are visible   *)
(* to others once connection3.commit() has run, and are rolled back when   *)
(* the connection is closed without it.                                    *)
(***************************************************************************)
\* the columns the INSERT ... SELECT of a token copies
WorkerColumns(token) ==
    IF token \in index_tokens
    THEN {"timestamp", "price"}
    ELSE TableColumns \ ({"instrument_token"} \cup CatalogColumns)

\* the selected columns of one row of daily_table
CopiedRow(token, row) == [col \in WorkerColumns(token) |-> row[col]]

\* SELECT ... FROM daily_table WHERE instrument_token = token
SelectRows(table, token) ==
    SelectSeq(table, LAMBDA row : row["instrument_token"] = token)

\* The stored row the UNIQUE (timestamp) index matches with the inserted
\* row, 0 if none; a NULL timestamp never matches.
TimestampIndex(table, row) ==
    LET hits == { i \in 1..Len(table) :
                    /\ row["timestamp"] # NULL
                    /\ table[i]["timestamp"] = row["timestamp"] }
    IN  IF hits = {} THEN 0 ELSE CHOOSE i \in hits : TRUE

\* INSERT ... ON CONFLICT (timestamp) DO UPDATE SET col = EXCLUDED.col, for
\* one selected row
UpsertByTimestamp(table, row) ==
    LET i == TimestampIndex(table, row)
    IN  IF i = 0 THEN Append(table, row) ELSE [table EXCEPT ![i] = row]

\* INSERT INTO table SELECT ... for the first n selected rows
RECURSIVE CopyRows(_, _, _, _)
CopyRows(table, token, rows, n) ==
    IF n = 0
    THEN table
    ELSE UpsertByTimestamp(CopyRows(table, token, rows, n - 1),
                           CopiedRow(token, rows[n]))

\* The steps of a worker: psycopg2.connect, CREATE TABLE IF NOT EXISTS, the
\* INSERT ... SELECT, the INSERT INTO backup_success_tables, and
\* connection3.commit().
WorkerSteps == 5

\* The steps a worker completes when the database lets `completed` of them
\* run: the INSERT INTO backup_success_tables raises when the worker sees
\* no such table.
WorkerReached(success_table, completed) ==
    IF ~success_table.exists /\ completed > 3 THEN 3 ELSE completed

\* a connection that commits every statement
CopyCommitted_AtOnce(reached) == reached >= 3

\* the copied rows are committed by connection3.commit(), the last step
CopyCommitted(reached) == reached = WorkerSteps

\* One call.  db is the committed database: the per-instrument tables and
\* backup_success_tables.  The result is the database after the call, what
\* the call did, and what it handed to log_system_error.
backup_one_instrument(db, table, instrument_token, completed) ==
    LET reached == WorkerReached(db.success, completed)
        call(outcome) ==
            [token |-> instrument_token, outcome |-> outcome,
             reached |-> reached]
    IN  IF reached = 0
        THEN [db |-> db, call |-> call("raised"), errors |-> <<>>]
        ELSE IF instrument_token \notin backup_full_token_list
        THEN [db |-> db, call |-> call("unsubscribed"),
              errors |-> <<"Found data for unsubscribed instrument_token">>]
        ELSE LET rows == SelectRows(table, instrument_token)
                 copied ==
                     [db.tables EXCEPT ![instrument_token] =
                         CopyRows(@, instrument_token, rows, Len(rows))]
                 tables == IF CopyCommitted(reached) THEN copied ELSE db.tables
             IN  IF reached = WorkerSteps
                 THEN [db |-> [tables |-> tables,
                               success |->
                                  [db.success EXCEPT
                                      !.tokens = Append(@, instrument_token)]],
                       call |-> call("committed"), errors |-> <<>>]
                 ELSE [db |-> [tables |-> tables, success |-> db.success],
                       call |-> call("failed"),
                       errors |->
                          <<"Exception while copying instrument token">>]

\* the orders in which the workers of a set of tokens can run
Orders(tokens) ==
    { order \in [1..Cardinality(tokens) -> tokens] :
        \A i, j \in 1..Cardinality(tokens) : order[i] = order[j] => i = j }

\* executor.map(backup_one_instrument, instrument_tokens_to_store): the
\* first n workers of an order
RECURSIVE RunWorkers(_, _, _, _, _)
RunWorkers(db, table, order, completed, n) ==
    IF n = 0
    THEN [db |-> db, calls |-> <<>>, errors |-> <<>>]
    ELSE LET before == RunWorkers(db, table, order, completed, n - 1)
             this == backup_one_instrument(before.db, table, order[n],
                                           completed[order[n]])
         IN  [db |-> this.db,
              calls |-> Append(before.calls, this.call),
              errors |-> before.errors \o this.errors]

\* SELECT DISTINCT(instrument_token) FROM backup_success_tables
RowTokens(tokens) == { tokens[i] : i \in 1..Len(tokens) }

\* CREATE TABLE IF NOT EXISTS backup_success_tables (insertid INT
\* AUTO_INCREMENT PRIMARY KEY, instrument_token BIGINT(20), ...) is sent to
\* PostgreSQL through psycopg2.  AUTO_INCREMENT and BIGINT(20) are MySQL
\* syntax: the statement raises a syntax error, before any worker is
\* started.
CreateBackupSuccessTables == "SyntaxError"

\* an except clause that reports success
run_daily_market_data_backup_except_True(message) ==
    /\ errors_logged' = Append(errors_logged, message)
    /\ mails' = Append(mails, message)
    /\ backup_pc' = "returned_True"
    /\ UNCHANGED daily_table_dropped

\* except Exception as e: the message is logged, mailed and handed to
\* log_system_error; return False.  The connection is left without a
\* commit.
run_daily_market_data_backup_except(message) ==
    /\ errors_logged' = Append(errors_logged, message)
    /\ mails' = Append(mails, message)
    /\ backup_pc' = "returned_False"
    /\ UNCHANGED daily_table_dropped

\* the subject of the mail that reports failed backups
FailedBackupSubject(blank_tables) ==
    IF blank_tables = "found"
    THEN "Daily Market Data Backup failed and instrument_tokens with no data found"
    ELSE "Daily Market Data Backup failed for"

\* The whole call.  Past the CREATE TABLE the workers run
\* backup_one_instrument for every token of daily_table, each on its own
\* connection and in any order.  The CREATE TABLE of this connection is not
\* committed, so the workers see backup_success_tables only if the database
\* had it before.  The function then reads the entries and decides.
RunDailyMarketDataBackup ==
    /\ backup_pc = "not_called"
    /\ IF \/ backup_inputs.blank_equity_universe_tables = "raise"
          \/ CreateBackupSuccessTables # "ok"
       THEN /\ run_daily_market_data_backup_except(
                   "Exception in Daily Market Data Backup")
            /\ UNCHANGED <<backup_success_tokens, instrument_tables,
                           backup_success_tables, worker_calls>>
       ELSE \E order \in Orders(instrument_tokens_to_store(daily_table)),
               completed \in [instrument_tokens_to_store(daily_table) ->
                                 0..WorkerSteps] :
               LET after ==
                       RunWorkers([tables |-> instrument_tables,
                                   success |-> backup_success_tables],
                                  daily_table, order, completed, Len(order))
                   succeeded == RowTokens(after.db.success.tokens)
               IN  /\ instrument_tables' = after.db.tables
                   /\ backup_success_tables' = after.db.success
                   /\ worker_calls' = worker_calls \o after.calls
                   /\ backup_success_tokens' = succeeded
                   /\ IF backup_failed_token_list(daily_table, succeeded) # {}
                      THEN /\ errors_logged' =
                                 Append(errors_logged \o after.errors,
                                        "Daily Market Data Backup failed for")
                           /\ mails' =
                                 Append(mails,
                                        FailedBackupSubject(
                                            backup_inputs.blank_equity_universe_tables))
                           /\ backup_pc' = "returned_False"
                           /\ UNCHANGED daily_table_dropped
                      ELSE /\ daily_table_dropped' = TRUE
                           /\ mails' = Append(mails, "Done for the day")
                           /\ backup_pc' = "returned_True"
                           /\ errors_logged' = errors_logged \o after.errors
    /\ UNCHANGED <<ticker_vars, main_vars, request_vars, other_vars,
                   backup_inputs>>

\* what find_equity_universe_blank_tables does: it returns an empty frame,
\* a frame of instruments without ticks, or raises
BackupInputs == [blank_equity_universe_tables : {"empty", "found", "raise"}]

\* daily_table as one committed batch of the ticker leaves it
BackupTables ==
    { bulk_replace(<<>>, Ticks(batch), Len(batch) + 1) : batch \in Batches(Pool) }

InitBackup ==
    /\ TickerIdle
    /\ MainIdle
    /\ RequestIdle
    /\ OthersIdle
    /\ now = [hour |-> 16, minute |-> 0, second |-> 0]
    /\ broker_tokens = <<>>
    /\ daily_table \in BackupTables
    /\ backup_pc = "not_called"
    /\ backup_inputs \in BackupInputs
    /\ backup_success_tokens = {}
    /\ daily_table_dropped = FALSE
    /\ instrument_tables = [token \in backup_full_token_list |-> <<>>]
    /\ backup_success_tables = NoTable
    /\ worker_calls = <<>>
    /\ mails = <<>>
    /\ errors_logged = <<>>

NextBackup == RunDailyMarketDataBackup

SpecBackup == InitBackup /\ [][NextBackup]_vars

(***************************************************************************)
(* SpecWorker: calls of backup_one_instrument on a database that holds     *)
(* daily_table as the ticker left it, with or without a table              *)
(* backup_success_tables.  A token can be handed to a worker again, as     *)
(* when the backup is run once more after a failure.                       *)
(***************************************************************************)
\* the calls of backup_one_instrument of one run of the model
MaxWorkerCalls == 2

BackupOneInstrument ==
    /\ backup_pc = "workers"
    /\ Len(worker_calls) < MaxWorkerCalls
    /\ \E instrument_token \in instrument_tokens_to_store(daily_table),
          completed \in 0..WorkerSteps :
          LET after ==
                  backup_one_instrument(
                      [tables |-> instrument_tables,
                       success |-> backup_success_tables],
                      daily_table, instrument_token, completed)
          IN  /\ instrument_tables' = after.db.tables
              /\ backup_success_tables' = after.db.success
              /\ worker_calls' = Append(worker_calls, after.call)
              /\ errors_logged' = errors_logged \o after.errors
    /\ UNCHANGED <<backup_pc, backup_inputs, backup_success_tokens,
                   daily_table_dropped, mails>>
    /\ UNCHANGED <<ticker_vars, main_vars, request_vars, other_vars>>

InitWorker ==
    /\ TickerIdle
    /\ MainIdle
    /\ RequestIdle
    /\ OthersIdle
    /\ now = [hour |-> 16, minute |-> 0, second |-> 0]
    /\ broker_tokens = <<>>
    /\ daily_table \in BackupTables
    /\ backup_pc = "workers"
    /\ backup_inputs = <<>>
    /\ backup_success_tokens = {}
    /\ daily_table_dropped = FALSE
    /\ instrument_tables = [token \in backup_full_token_list |-> <<>>]
    /\ backup_success_tables \in {NoTable, [exists |-> TRUE, tokens |-> <<>>]}
    /\ worker_calls = <<>>
    /\ mails = <<>>
    /\ errors_logged = <<>>

NextWorker == BackupOneInstrument

SpecWorker == InitWorker /\ [][NextWorker]_vars

(***************************************************************************)
(* SpecRequest: request_broker_access_token, from its call through the     *)
(* retry_on_failure wrapper to the return or raise of the wrapper.  What   *)
(* the browser login does is an input of each attempt: the attempt ends    *)
(* with the token stored, or raises somewhere on the way (the store        *)
(* included).  The function sleeps 30 seconds between attempts;            *)
(* broker_tokens is a table of the database, and another run can store a   *)
(* token in it meanwhile.                                                  *)
(***************************************************************************)
MaxTokens == 2

RETRY_COUNT == 5

\* @retry_on_failure(max_attempts=5, delay=30)
max_attempts == 5

\* is_latest_token_fresh(after_hour=8)
after_hour == 8

\* datetime.now() of the run
get_current_timestamp == Today(now.hour)

\* a freshness test that takes a token of the hour itself as fresh
is_latest_token_fresh_from_hour(tokens, hour) ==
    IF tokens = <<>>
    THEN FALSE
    ELSE Head(tokens).timestamp >= Today(hour)

\* BrokerTokenManager.is_latest_token_fresh: status False when the table
\* has no row, else whether the timestamp of the latest row is after today
\* at the given hour
is_latest_token_fresh(tokens, hour) ==
    IF tokens = <<>>
    THEN FALSE
    ELSE Head(tokens).timestamp > Today(hour)

\* is_access_token_in_db_fresh: the status of is_latest_token_fresh, False
\* when anything on the way raised
is_access_token_in_db_fresh(tokens, check) ==
    IF check = "raise" THEN FALSE ELSE is_latest_token_fresh(tokens, after_hour)

\* The wrapper calls request_broker_access_token, which runs to the head
\* of its login loop: the configuration holds defaults (logged, return
\* False), or loading it or building the database manager raises (the
\* wrapper sleeps and calls again, and raises the exception after its last
\* attempt), or the loop is entered.
RequestBrokerAccessToken ==
    /\ request_pc = "wrapper"
    /\ \E setup \in {"default", "raise", "ok"} :
          CASE setup = "default" ->
                  /\ errors_logged' = Append(errors_logged, "System Config has defaults")
                  /\ request_pc' = "returned_False"
                  /\ UNCHANGED <<wrapper_attempt, attempt>>
            [] setup = "raise" ->
                  /\ IF wrapper_attempt < max_attempts - 1
                     THEN /\ wrapper_attempt' = wrapper_attempt + 1
                          /\ request_pc' = "wrapper"
                     ELSE /\ request_pc' = "raised"
                          /\ UNCHANGED wrapper_attempt
                  /\ UNCHANGED <<errors_logged, attempt>>
            [] OTHER ->
                  /\ request_pc' = "login"
                  /\ attempt' = 1
                  /\ UNCHANGED <<errors_logged, wrapper_attempt>>
    /\ UNCHANGED <<mails, failed_logins, token_stored, ticker_vars, main_vars,
                   backup_vars, other_vars>>

\* One pass of `for attempt in range(1, RETRY_COUNT + 1)`: the try block
\* stores the token and returns True, or raises; the except clause logs the
\* failure and asks whether the latest token of the database is fresh: if
\* so it mails that the latest token is used and returns True, else it
\* sleeps and the loop goes on; the else of the loop logs and mails the
\* failure and returns False.
LoginAttempt ==
    /\ request_pc = "login"
    /\ \E login \in {"stored", "raise"}, check \in {"ok", "raise"} :
          IF login = "stored"
          THEN /\ broker_tokens' = <<BrokerToken(get_current_timestamp)>> \o broker_tokens
               /\ token_stored' = TRUE
               /\ request_pc' = "returned_True"
               /\ UNCHANGED <<mails, errors_logged, attempt, failed_logins>>
          ELSE /\ failed_logins' = failed_logins + 1
               /\ UNCHANGED <<broker_tokens, token_stored>>
               /\ IF is_access_token_in_db_fresh(broker_tokens, check)
                  THEN /\ errors_logged' =
                             Append(errors_logged, "Access token Failed. Attempt")
                       /\ mails' = Append(mails, "access_token_request FAILED. Using latest token")
                       /\ request_pc' = "returned_True"
                       /\ UNCHANGED attempt
                  ELSE IF attempt < RETRY_COUNT
                  THEN /\ errors_logged' =
                             Append(errors_logged, "Access token Failed. Attempt")
                       /\ attempt' = attempt + 1
                       /\ request_pc' = "login"
                       /\ UNCHANGED mails
                  ELSE /\ errors_logged' =
                             errors_logged \o <<"Access token Failed. Attempt",
                                                "Access token Failed After">>
                       /\ mails' = Append(mails, "Access token Failed")
                       /\ request_pc' = "returned_False"
                       /\ UNCHANGED attempt
    /\ UNCHANGED <<feed, writer_vars, pc, now, shutdown_hour, shutdown_minute,
                   shutdown_timer, catalog_loaded, access_token, client_vars,
                   kws, wrapper_attempt, main_vars, backup_vars, other_vars>>

\* another run stores a token while this one is between two attempts
TokenStoredElsewhere ==
    /\ request_pc = "login"
    /\ Len(broker_tokens) < MaxTokens
    /\ broker_tokens' = <<BrokerToken(get_current_timestamp)>> \o broker_tokens
    /\ UNCHANGED <<feed, writer_vars, pc, now, shutdown_hour, shutdown_minute,
                   shutdown_timer, catalog_loaded, access_token, client_vars,
                   kws, outside_vars, mails, errors_logged>>

\* the hours at which the request is run
RequestHours == {7, 9}

\* the latest rows broker_tokens can hold at the given time
StoredTimestamps(current) ==
    { t \in {Yesterday(9), Today(7), Today(after_hour), Today(9)} : t <= current }

InitRequest ==
    /\ TickerIdle
    /\ MainIdle
    /\ BackupIdle
    /\ OthersIdle
    /\ daily_table = <<>>
    /\ now \in { [hour |-> h, minute |-> 0, second |-> 0] : h \in RequestHours }
    /\ broker_tokens \in
          {<<>>} \cup { <<BrokerToken(t)>> : t \in StoredTimestamps(Today(now.hour)) }
    /\ request_pc = "wrapper"
    /\ wrapper_attempt = 0
    /\ attempt = 0
    /\ failed_logins = 0
    /\ token_stored = FALSE
    /\ mails = <<>>
    /\ errors_logged = <<>>

NextRequest == RequestBrokerAccessToken \/ LoginAttempt \/ TokenStoredElsewhere

SpecRequest == InitRequest /\ [][NextRequest]_vars

(***************************************************************************)
(* SpecHoliday: check_trading_holiday(input_date), from its call to its    *)
(* return or raise.  Dates are coded as integers; a holiday list is the    *)
(* set of its dates.  What the two remote sources answer is an input: the  *)
(* number of attempts that raise before one succeeds, and the list the     *)
(* successful attempt yields.                                              *)
(***************************************************************************)
HOLIDAY_RETRY_COUNT == 5

\* @retry_on_failure(max_attempts=5, delay=30) of get_holiday_list_from_nse
nse_max_attempts == 5

\* the input date
InputDate == 1

HolidayDates == {InputDate, 2}

HolidayLists == SUBSET HolidayDates

\* x, k times
Repeat(x, k) == [i \in 1..k |-> x]

\* to_csv('trading_holidays.csv'): the file as a successful download leaves
\* it
FileWritten(dates) ==
    [exists |-> TRUE, fresh |-> TRUE, readable |-> TRUE, dates |-> dates]

\* get_holiday_list_from_upstox: every failed attempt is logged; the first
\* attempt that succeeds stores the list and returns it; after RETRY_COUNT
\* failed attempts the failure is logged and mailed and [] is returned.
get_holiday_list_from_upstox(file, answer) ==
    IF answer.failures >= HOLIDAY_RETRY_COUNT
    THEN [raised |-> FALSE, list |-> {}, file |-> file,
          errors |-> Repeat("get_holiday_list_from_upstox Failed. Attempt",
                            HOLIDAY_RETRY_COUNT)
                     \o <<"get_holiday_list_from_upstox - Failed After">>,
          mails |-> <<"get_holiday_list_from_upstox Failed">>]
    ELSE [raised |-> FALSE, list |-> answer.list, file |-> FileWritten(answer.list),
          errors |-> Repeat("get_holiday_list_from_upstox Failed. Attempt",
                            answer.failures),
          mails |-> <<>>]

\* get_holiday_list_from_nse under retry_on_failure: the first attempt that
\* returns stores the list and yields it; when every attempt has raised,
\* the wrapper raises the last exception.  Nothing is logged or mailed.
get_holiday_list_from_nse(file, answer) ==
    IF answer.failures >= nse_max_attempts
    THEN [raised |-> TRUE, list |-> {}, file |-> file,
          errors |-> <<>>, mails |-> <<>>]
    ELSE [raised |-> FALSE, list |-> answer.list, file |-> FileWritten(answer.list),
          errors |-> <<>>, mails |-> <<>>]

\* the fallback of get_holiday_list, inside its try block: the local file
\* when it exists ([] when reading it raises), else [], logged and mailed
local_holiday_list(file) ==
    IF file.exists
    THEN IF file.readable
         THEN [raised |-> FALSE, list |-> file.dates, file |-> file,
               errors |-> <<"Using Local file">>, mails |-> <<>>]
         ELSE [raised |-> FALSE, list |-> {}, file |-> file,
               errors |-> <<"Using Local file", "Fall Back failed with exception">>,
               mails |-> <<"get_holiday_list Failed">>]
    ELSE [raised |-> FALSE, list |-> {}, file |-> file,
          errors |-> <<"Using Local file", "trading_holidays.csv not found">>,
          mails |-> <<"get_holiday_list_from_nse Failed">>]

\* what the second call did, after what the first one logged and mailed
After(first, second) ==
    [second EXCEPT !.errors = first.errors \o second.errors,
                   !.mails = first.mails \o second.mails]

\* get_holiday_list: Upstox; when its list is empty, NSE, called outside
\* every try block; when that list is empty as well, the local file.
get_holiday_list(file, answers) ==
    LET upstox == get_holiday_list_from_upstox(file, answers.upstox)
    IN  IF upstox.list # {}
        THEN upstox
        ELSE LET nse == After(upstox,
                              get_holiday_list_from_nse(upstox.file, answers.nse))
             IN  IF nse.raised \/ nse.list # {}
                 THEN nse
                 ELSE After(nse, local_holiday_list(nse.file))

\* The list check_trading_holiday looks the date up in: the local file
\* when it exists and is not older than one hour (read outside every try
\* block), else get_holiday_list().
trading_holiday_list(file, answers) ==
    IF file.exists /\ file.fresh
    THEN [raised |-> ~file.readable, list |-> file.dates, file |-> file,
          errors |-> <<>>, mails |-> <<>>]
    ELSE get_holiday_list(file, answers)

\* check_trading_holiday(input_date): True on a Saturday or Sunday; else
\* whether the date is in the list
CheckTradingHoliday ==
    /\ holiday_pc = "not_called"
    /\ IF holiday_inputs.weekend
       THEN /\ holiday_pc' = "returned_True"
            /\ UNCHANGED <<holiday_file, mails, errors_logged>>
       ELSE LET found == trading_holiday_list(holiday_file, holiday_inputs)
            IN  /\ holiday_file' = found.file
                /\ mails' = mails \o found.mails
                /\ errors_logged' = errors_logged \o found.errors
                /\ holiday_pc' =
                      IF found.raised THEN "raised"
                      ELSE IF InputDate \in found.list THEN "returned_True"
                      ELSE "returned_False"
    /\ UNCHANGED <<ticker_vars, main_vars, backup_vars, request_vars,
                   retry_vars, manager_vars, holiday_inputs>>

\* attempts of a source that raise before one succeeds, of n attempts
Failures(n) == {0, n - 1, n}

\* what a remote source answers: no list when every attempt fails
Answers(n) ==
    { a \in [failures : Failures(n), list : HolidayLists] :
        a.failures = n => a.list = {} }

\* trading_holidays.csv before the call
LocalFiles ==
    {NoFile} \cup
    { f \in [exists : {TRUE}, fresh : BOOLEAN, readable : BOOLEAN,
             dates : HolidayLists] : ~f.readable => f.dates = {} }

HolidayInputs ==
    [weekend : BOOLEAN, local : LocalFiles,
     upstox : Answers(HOLIDAY_RETRY_COUNT), nse : Answers(nse_max_attempts)]

InitHoliday ==
    /\ TickerIdle
    /\ MainIdle
    /\ BackupIdle
    /\ RequestIdle
    /\ RetryIdle
    /\ ManagerIdle
    /\ daily_table = <<>>
    /\ now = [hour |-> 9, minute |-> 0, second |-> 0]
    /\ broker_tokens = <<>>
    /\ holiday_pc = "not_called"
    /\ holiday_inputs \in HolidayInputs
    /\ holiday_file = holiday_inputs.local
    /\ mails = <<>>
    /\ errors_logged = <<>>

NextHoliday == CheckTradingHoliday

SpecHoliday == InitHoliday /\ [][NextHoliday]_vars

(***************************************************************************)
(* SpecRetry: the wrapper that retry_on_failure(max_attempts, delay,       *)
(* exceptions) puts around a function, from its call to its return or      *)
(* raise.  What each call of the function does is an input of the call: it *)
(* returns a value or raises an exception of some class.  An exception is  *)
(* recorded with the call that raised it.                                  *)
(***************************************************************************)
MaxAttempts == 3

\* the classes of the exceptions the wrapped function raises
ExceptionClasses == {"ValueError", "KeyError"}

\* the values it returns
ReturnValues == {"True", "False"}

\* a wrapper that sleeps after every failed attempt, the last included
SleepsAfter_EveryAttempt(attempt_index, attempts) == TRUE

\* if attempt < max_attempts - 1: time.sleep(delay)
SleepsAfter(attempt_index, attempts) == attempt_index < attempts - 1

\* The wrapper is called: last_exception = None and the loop
\* `for attempt in range(max_attempts)` begins.  With max_attempts < 1 the
\* loop has no pass and `raise last_exception` raises None, a TypeError.
RetryCalled ==
    /\ retry_pc = "not_called"
    /\ IF retry_inputs.max_attempts < 1
       THEN /\ retry_pc' = "raised"
            /\ retry_result' = [kind |-> "raise", class |-> "TypeError", call |-> 0]
       ELSE /\ retry_pc' = "loop"
            /\ UNCHANGED retry_result
    /\ UNCHANGED <<retry_inputs, retry_attempt, retry_log, retry_slept,
                   retry_waited, last_exception>>
    /\ UNCHANGED <<ticker_vars, main_vars, backup_vars, request_vars,
                   holiday_vars, manager_vars, mails, errors_logged>>

\* One pass of the loop: `return func(*args, **kwargs)`; an exception of a
\* listed class is kept in last_exception, the wrapper sleeps unless the
\* attempt is the last, and the loop goes on; after the last pass
\* `raise last_exception`.  An exception of another class leaves the
\* wrapper at once.
RetryAttempt ==
    /\ retry_pc = "loop"
    /\ \E outcome \in [kind : {"return"}, value : ReturnValues]
                       \cup [kind : {"raise"}, class : ExceptionClasses,
                             call : {retry_attempt + 1}] :
          /\ retry_log' = Append(retry_log, outcome)
          /\ IF outcome.kind = "return"
             THEN /\ retry_pc' = "returned"
                  /\ retry_result' = outcome
                  /\ UNCHANGED <<retry_attempt, retry_slept, retry_waited,
                                 last_exception>>
             ELSE IF outcome.class \notin retry_inputs.exceptions
             THEN /\ retry_pc' = "raised"
                  /\ retry_result' = outcome
                  /\ UNCHANGED <<retry_attempt, retry_slept, retry_waited,
                                 last_exception>>
             ELSE /\ last_exception' = outcome
                  /\ IF SleepsAfter(retry_attempt, retry_inputs.max_attempts)
                     THEN /\ retry_slept' = retry_slept \cup {retry_attempt + 1}
                          /\ retry_waited' = retry_waited + retry_inputs.delay
                     ELSE UNCHANGED <<retry_slept, retry_waited>>
                  /\ IF retry_attempt + 1 < retry_inputs.max_attempts
                     THEN /\ retry_attempt' = retry_attempt + 1
                          /\ retry_pc' = "loop"
                          /\ UNCHANGED retry_result
                     ELSE /\ retry_pc' = "raised"
                          /\ retry_result' = last_exception'
                          /\ UNCHANGED retry_attempt
    /\ UNCHANGED retry_inputs
    /\ UNCHANGED <<ticker_vars, main_vars, backup_vars, request_vars,
                   holiday_vars, manager_vars, mails, errors_logged>>

\* the delays of the decorators of the model
RetryDelays == {1, 30}

RetryInputs ==
    [max_attempts : 0..MaxAttempts, delay : RetryDelays,
     exceptions : {ExceptionClasses, {"ValueError"}}]

InitRetry ==
    /\ TickerIdle
    /\ MainIdle
    /\ BackupIdle
    /\ RequestIdle
    /\ HolidayIdle
    /\ ManagerIdle
    /\ daily_table = <<>>
    /\ now = [hour |-> 9, minute |-> 0, second |-> 0]
    /\ broker_tokens = <<>>
    /\ retry_pc = "not_called"
    /\ retry_inputs \in RetryInputs
    /\ retry_attempt = 0
    /\ retry_log = <<>>
    /\ retry_slept = {}
    /\ retry_waited = 0
    /\ last_exception = None
    /\ retry_result = None
    /\ mails = <<>>
    /\ errors_logged = <<>>

NextRetry == RetryCalled \/ RetryAttempt

SpecRetry == InitRetry /\ [][NextRetry]_vars

(***************************************************************************)
(* SpecManager: threads that construct DatabaseManager, each any number of *)
(* times up to a bound.  DatabaseManager(...) runs __new__ and then        *)
(* __init__ on the object __new__ returned; a step of a thread is one read *)
(* or write of the class attribute _instance, of the lock, or of the       *)
(* attribute pool of the object, and the steps of different threads        *)
(* interleave.  The statements between the acquisition of _lock and its    *)
(* release are steps of the thread that holds it.                          *)
(***************************************************************************)
\* the threads that call DatabaseManager(...)
MaxThreads == 2

\* the constructions one thread makes, one after the other
MaxCalls == 2

Threads == 1..MaxThreads

\* host, user, password, port and database_name of a construction
ManagerArgs == {"trading", "tokens"}

\* the thread is in no construction and has made none
NotConstructing == [pc |-> "idle", args |-> "", self |-> 0, calls |-> 0]

\* what a construction of DatabaseManager leaves alone
manager_outside_vars ==
    <<ticker_vars, main_vars, backup_vars, request_vars, holiday_vars,
      retry_vars, mails, errors_logged>>

\* a thread moves on
Moves(t, pc_after, self_after) ==
    threads' = [threads EXCEPT ![t].pc = pc_after, ![t].self = self_after]

\* DatabaseManager(host, user, password, port, database_name) is called
ManagerCalled ==
  \E t \in Threads :
    /\ threads[t].pc \in {"idle", "returned", "raised"}
    /\ threads[t].calls < MaxCalls
    /\ \E args \in ManagerArgs :
          threads' = [threads EXCEPT ![t] =
                         [pc |-> "new", args |-> args, self |-> 0,
                          calls |-> threads[t].calls + 1]]
    /\ UNCHANGED <<cls_instance, cls_lock, instances, instance_pool, pools>>
    /\ UNCHANGED manager_outside_vars

\* __new__: `if not cls._instance:`, and `return cls._instance` when the
\* object exists
NewChecks ==
  \E t \in Threads :
    /\ threads[t].pc = "new"
    /\ IF cls_instance = 0
       THEN Moves(t, "new_lock", 0)
       ELSE Moves(t, "init", cls_instance)
    /\ UNCHANGED <<cls_instance, cls_lock, instances, instance_pool, pools>>
    /\ UNCHANGED manager_outside_vars

\* __new__: `with cls._lock:` is entered
NewAcquires ==
  \E t \in Threads :
    /\ threads[t].pc = "new_lock"
    /\ cls_lock = 0
    /\ cls_lock' = t
    /\ Moves(t, "new_locked", 0)
    /\ UNCHANGED <<cls_instance, instances, instance_pool, pools>>
    /\ UNCHANGED manager_outside_vars

\* __new__: `if not cls._instance:` under the lock
SecondTest(instance) == instance = 0

\* __new__ under the lock: the second test, `cls._instance =
\* super().__new__(cls)`, the release of the lock and `return cls._instance`
NewLocked ==
  \E t \in Threads :
    /\ threads[t].pc = "new_locked"
    /\ cls_lock = t
    /\ cls_lock' = 0
    /\ IF SecondTest(cls_instance)
       THEN /\ instances' = instances + 1
            /\ cls_instance' = instances'
            /\ instance_pool' = Append(instance_pool, 0)
       ELSE UNCHANGED <<instances, cls_instance, instance_pool>>
    /\ Moves(t, "init", cls_instance')
    /\ UNCHANGED pools
    /\ UNCHANGED manager_outside_vars

\* __init__: `if hasattr(self, 'pool'): return`
InitChecks ==
  \E t \in Threads :
    /\ threads[t].pc = "init"
    /\ IF instance_pool[threads[t].self] # 0
       THEN Moves(t, "returned", threads[t].self)
       ELSE Moves(t, "init_pool", threads[t].self)
    /\ UNCHANGED <<cls_instance, cls_lock, instances, instance_pool, pools>>
    /\ UNCHANGED manager_outside_vars

\* __init__: `self.pool = psycopg2.pool.ThreadedConnectionPool(1, 20, ...)`,
\* which opens a connection and raises when the server refuses it; the
\* except clause prints and raises again
InitCreatesPool ==
  \E t \in Threads :
    /\ threads[t].pc = "init_pool"
    /\ \E connected \in BOOLEAN :
          IF connected
          THEN /\ pools' = Append(pools, threads[t].args)
               /\ instance_pool' =
                     [instance_pool EXCEPT ![threads[t].self] = Len(pools')]
               /\ Moves(t, "returned", threads[t].self)
          ELSE /\ Moves(t, "raised", threads[t].self)
               /\ UNCHANGED <<pools, instance_pool>>
    /\ UNCHANGED <<cls_instance, cls_lock, instances>>
    /\ UNCHANGED manager_outside_vars

InitManager ==
    /\ TickerIdle
    /\ MainIdle
    /\ BackupIdle
    /\ RequestIdle
    /\ HolidayIdle
    /\ RetryIdle
    /\ daily_table = <<>>
    /\ now = [hour |-> 9, minute |-> 0, second |-> 0]
    /\ broker_tokens = <<>>
    /\ cls_instance = 0
    /\ cls_lock = 0
    /\ instances = 0
    /\ instance_pool = <<>>
    /\ pools = <<>>
    /\ threads = [t \in Threads |-> NotConstructing]
    /\ mails = <<>>
    /\ errors_logged = <<>>

NextManager ==
    \/ ManagerCalled
    \/ NewChecks
    \/ NewAcquires
    \/ NewLocked
    \/ InitChecks
    \/ InitCreatesPool

SpecManager == InitManager /\ [][NextManager]_vars

(***************************************************************************)
(* Vocabulary of the properties below.  These definitions describe what    *)
(* the specification expects of a tick; none of them is used by an action. *)
(***************************************************************************)
\* positions of the stored rows with the given (instrument_token, timestamp)
RowsWithKey(table, token, timestamp) ==
    { i \in 1..Len(table) :
        /\ table[i]["instrument_token"] = token
        /\ table[i]["timestamp"] = timestamp }

FieldOrNull(tick, f) == IF f \in DOMAIN tick THEN tick[f] ELSE NULL

TickToken(tick) == tick["instrument_token"]

TickTime(tick) == FieldOrNull(tick, "exchange_timestamp")

KnownInstrument(tick) == TickToken(tick) \in DOMAIN main_token_table_dict

HasDepth(tick) == "depth" \in DOMAIN tick

HasOhlc(tick) == "ohlc" \in DOMAIN tick

WellShapedDepth(tick) ==
    HasDepth(tick) => \A side \in Sides : Len(tick["depth"][side]) = DepthLevels

\* a tick with its required fields and sub-records of the expected shape
ValidTick(tick) ==
    /\ {"instrument_token", "exchange_timestamp", "last_price"} \subseteq DOMAIN tick
    /\ HasOhlc(tick)
    /\ WellShapedDepth(tick)

\* the canonical row of one tick taken alone: its own values, NULL where the
\* tick has none
CanonicalRow(tick) ==
    [col \in TableColumns |->
        CASE col = "tradingsymbol" -> MapDict(main_token_symbol_dict, TickToken(tick))
          [] col = "tablename"     -> MapDict(main_token_table_dict, TickToken(tick))
          [] col = "dbname"        -> MapDict(token_to_db_name_dict, TickToken(tick))
          [] col \in OhlcColumns   -> IF HasOhlc(tick) THEN tick["ohlc"][col] ELSE NULL
          [] col \in DepthColumns  ->
                LET cell == CellOf[col]
                IN  IF HasDepth(tick) /\ cell[3] + 1 <= Len(tick["depth"][cell[1]])
                    THEN tick["depth"][cell[1]][cell[3] + 1][cell[2]]
                    ELSE NULL
          [] OTHER -> FieldOrNull(tick, RawField[col])]

\* tick i is the last tick of the batch with its key
LastWithKey(ticks, i) ==
    \A j \in (i + 1)..Len(ticks) :
        ~(TickToken(ticks[j]) = TickToken(ticks[i]) /\ TickTime(ticks[j]) = TickTime(ticks[i]))

\* the tick's key was written before it: stored before the call, or carried
\* by an earlier tick of the batch
WrittenBefore(table, ticks, i) ==
    \/ RowsWithKey(table, TickToken(ticks[i]), TickTime(ticks[i])) # {}
    \/ \E j \in 1..(i - 1) :
          TickToken(ticks[j]) = TickToken(ticks[i]) /\ TickTime(ticks[j]) = TickTime(ticks[i])

\* the tick has exactly one stored row
StoredOnce(table, tick) ==
    Cardinality(RowsWithKey(table, TickToken(tick), TickTime(tick))) = 1

\* the stored row of a tick that has exactly one
StoredRow(table, tick) ==
    table[CHOOSE i \in RowsWithKey(table, TickToken(tick), TickTime(tick)) : TRUE]

LastTicks == Ticks(last_batch)

\* every tick of the batch is valid and of a known instrument
AllValidKnown(ticks) ==
    \A i \in 1..Len(ticks) : ValidTick(ticks[i]) /\ KnownInstrument(ticks[i])

\* the keys of the batch that the table does not hold
NewKeys(table, ticks) ==
    { <<TickToken(ticks[i]), TickTime(ticks[i])>> : i \in 1..Len(ticks) }
        \ { <<table[i]["instrument_token"], table[i]["timestamp"]>> : i \in 1..Len(table) }

\* seq holds x
Contains(seq, x) == \E i \in 1..Len(seq) : seq[i] = x

\* run_market_data_ticker has been called
Called == pc # "not_called"

\* the configured close time is not before the time of the call
FutureCutoff == ~CloseTimeInPast(RunDuration(now, shutdown_hour, shutdown_minute))

\* the shutdown timer has fired and its kws.stop() did not raise
StopInvoked ==
    shutdown_timer = "fired" /\ ~Contains(errors_logged, "Ticker Could not be stopped")

\* the pre-checks of market_data_main, in the order the claim gives them
PreCheckOrder ==
    <<"check_trading_holiday", "is_system_config_default",
      "request_broker_access_token", "update_equity_universe",
      "create_instrument_lookup_tables">>

\* the k-th pre-check passed
Passed(k) ==
    CASE k = 1 -> checks.is_trading_holiday = "False"
      [] k = 2 -> checks.system_config_is_default = "False"
      [] k = 3 -> checks.access_token_success = "True"
      [] k = 4 -> checks.equity_universe_update_success = "True"
      [] k = 5 -> checks.lookup_table_creation_success = "True"

\* the subscribed instrument tokens that have rows in daily_table
SubscribedWithRows ==
    { t \in backup_full_token_list :
        \E i \in 1..Len(daily_table) : daily_table[i]["instrument_token"] = t }

\* run_daily_market_data_backup has returned
BackupReturned == backup_pc \in {"returned_True", "returned_False"}

\* the latest row of broker_tokens was created after 08:00 today
LatestTokenFresh ==
    /\ broker_tokens # <<>>
    /\ Head(broker_tokens).timestamp > HoursPerDay + 8

\* check_trading_holiday has ended
HolidayDone == holiday_pc \in {"returned_True", "returned_False", "raised"}

\* the list had to be fetched: a weekday, and no fresh local file
HolidayListFetched ==
    /\ ~holiday_inputs.weekend
    /\ ~(holiday_inputs.local.exists /\ holiday_inputs.local.fresh)

\* the source has failed: each of its attempts raised
SourceFailed(answer, attempts) == answer.failures >= attempts

\* check_trading_holiday has answered as the given list says
AnsweredFrom(list) ==
    holiday_pc = IF InputDate \in list THEN "returned_True" ELSE "returned_False"

\* a tick whose depth sub-record has fewer than DepthLevels levels on a side
ShortDepth(tick) ==
    HasDepth(tick) /\ \E side \in Sides : Len(tick["depth"][side]) < DepthLevels

\* call k of the wrapped function raised an exception of a listed class
RaisedListed(k) ==
    /\ retry_log[k].kind = "raise"
    /\ retry_log[k].class \in retry_inputs.exceptions

\* the row of daily_table is in the per-instrument table of its token
RowCopied(row) ==
    LET token == row["instrument_token"]
    IN  /\ token \in DOMAIN instrument_tables
        /\ \E i \in 1..Len(instrument_tables[token]) :
              instrument_tables[token][i] = CopiedRow(token, row)

\* every row of the token in daily_table is in its per-instrument table
AllRowsCopied(token) ==
    \A i \in 1..Len(daily_table) :
       daily_table[i]["instrument_token"] = token => RowCopied(daily_table[i])

\* backup_success_tables has an entry for the token
HasSuccessEntry(token) == token \in RowTokens(backup_success_tables.tokens)

\* a worker of the token has ended with the given outcome
WorkerEnded(token, outcome) ==
    \E i \in 1..Len(worker_calls) :
       worker_calls[i].token = token /\ worker_calls[i].outcome = outcome

\* the thread has an object back from DatabaseManager(...)
Constructed(t) == t \in DOMAIN threads /\ threads[t].pc = "returned"

\* a tick without a required field, or with a depth sub-record of
\* unexpected shape
MalformedTick(tick) ==
    \/ "last_price" \notin DOMAIN tick
    \/ "exchange_timestamp" \notin DOMAIN tick
    \/ ~WellShapedDepth(tick)

(***************************************************************************)
(* C1: after any sequence of batch writes, daily_table never holds two     *)
(* rows with the same (instrument_token, timestamp).                       *)
(* Violated: a tick without exchange_timestamp is stored with a NULL       *)
(* timestamp, which the UNIQUE constraint never matches.                   *)
(***************************************************************************)
C1_UniqueKey ==
    \A i, j \in 1..Len(daily_table) :
        (/\ daily_table[i]["instrument_token"] = daily_table[j]["instrument_token"]
         /\ daily_table[i]["timestamp"] = daily_table[j]["timestamp"]) => i = j

(***************************************************************************)
(* C2: last write wins.  When a batch has been written and tick B is the   *)
(* last tick of the batch for a key K that was written before, the stored  *)
(* row of K has every non-key column equal to B's value, NULL where B has  *)
(* none.  Stated for valid ticks B of known instruments only.              *)
(* Violated: columns no tick of B's batch carries are kept from A.         *)
(***************************************************************************)
C2_LastWriteWins ==
    last_outcome = "ok" =>
        \A i \in 1..Len(LastTicks) :
            (/\ ValidTick(LastTicks[i])
             /\ KnownInstrument(LastTicks[i])
             /\ LastWithKey(LastTicks, i)
             /\ WrittenBefore(prev_table, LastTicks, i))
            => /\ StoredOnce(daily_table, LastTicks[i])
               /\ \A col \in TableColumns \ KeyColumns :
                     StoredRow(daily_table, LastTicks[i])[col] = CanonicalRow(LastTicks[i])[col]

(***************************************************************************)
(* C3: idempotence.  In the state reached by writing a batch, writing the  *)
(* same batch again leaves daily_table as it is.                           *)
(* Violated: ticks without exchange_timestamp are inserted again.          *)
(***************************************************************************)
C3_Idempotent ==
    last_outcome = "ok" =>
        bulk_replace(daily_table, LastTicks, Len(LastTicks) + 1) = daily_table

(***************************************************************************)
(* C4: a tick whose instrument_token is in no lookup dictionary leaves no  *)
(* row, and every other valid tick of its batch is stored.                 *)
(* Violated: the unknown tick is stored with NULL tradingsymbol, tablename *)
(* and dbname.                                                             *)
(***************************************************************************)
C4_UnknownInstrumentDropped ==
    last_outcome = "ok" =>
        \A i \in 1..Len(LastTicks) :
            IF KnownInstrument(LastTicks[i])
            THEN ValidTick(LastTicks[i]) => StoredOnce(daily_table, LastTicks[i])
            ELSE RowsWithKey(daily_table, TickToken(LastTicks[i]), TickTime(LastTicks[i])) = {}

C6_NoOhlcStored ==
    (writes >= 1 /\ last_outcome # "write_error") =>
        \A i \in 1..Len(LastTicks) :
            (~HasOhlc(LastTicks[i]) /\ LastWithKey(LastTicks, i)) =>
                /\ StoredOnce(daily_table, LastTicks[i])
                /\ \A col \in OhlcColumns : StoredRow(daily_table, LastTicks[i])[col] = NULL

(***************************************************************************)
(* C7: per-row errors stay within the row.  Unless the database fails, a   *)
(* malformed tick of a batch (no price, no timestamp, or a depth           *)
(* sub-record of unexpected shape) adds no row, and every valid tick of    *)
(* the batch is stored.                                                    *)
(* Violated: a tick without price or timestamp is stored with NULLs, and a *)
(* depth of unexpected shape discards the whole batch.                     *)
(***************************************************************************)
C7_PerRowErrors ==
    (writes >= 1 /\ last_outcome # "write_error") =>
        /\ \A i \in 1..Len(LastTicks) :
              ValidTick(LastTicks[i]) => StoredOnce(daily_table, LastTicks[i])
        /\ (\E i \in 1..Len(LastTicks) : MalformedTick(LastTicks[i])) =>
              Len(daily_table) <= Len(prev_table)
                  + Cardinality({ i \in 1..Len(LastTicks) : ~MalformedTick(LastTicks[i]) })

(***************************************************************************)
(* C8: batch atomicity.  When the write of a batch fails (before the first *)
(* row, between rows, after the last row, or at the commit) or the batch   *)
(* is rejected before the write, daily_table is what it was before the     *)
(* call.                                                                   *)
(***************************************************************************)
C8_BatchAtomic ==
    last_outcome \in {"write_error", "normalize_error"} => daily_table = prev_table

\* the database raised after the first of two rows, over a non-empty table
C8_Witness ==
    /\ last_outcome = "write_error"
    /\ Len(last_batch) = 2
    /\ last_completed = 1
    /\ prev_table # <<>>
    /\ bulk_replace(prev_table, LastTicks, Len(LastTicks) + 1) # prev_table

\* what C9 asks of one on_ticks call
C9_Step ==
    writes' = writes + 1 =>
        /\ last_outcome' # "ok" =>
              /\ kws' = "connected"
              /\ mails' = Append(mails, "Dump Failed")
              /\ errors_logged' = Append(errors_logged, "bulk_replace failed")
        /\ (/\ last_outcome \in {"write_error", "normalize_error"}
            /\ last_outcome' # "write_error"
            /\ AllValidKnown(LastTicks')) =>
              /\ last_outcome' = "ok"
              /\ \A i \in 1..Len(LastTicks') : StoredOnce(daily_table', LastTicks'[i])

(***************************************************************************)
(* C9: a failed batch does not end the session.  On every on_ticks call    *)
(* that fails, the failure is logged and mailed and the feed client stays  *)
(* connected; and the call after a failed one, given a batch of valid      *)
(* ticks and a database that does not fail, stores every tick.             *)
(***************************************************************************)
C9_SessionSurvivesFailure == [][C9_Step]_vars

\* a batch was stored by the call that followed a failed call
C9_Witness ==
    /\ writes = 2
    /\ mails = <<"Dump Failed">>
    /\ last_outcome = "ok"
    /\ kws = "connected"
    /\ daily_table # <<>>

(***************************************************************************)
(* C10: called with a close time that is already past,                     *)
(* run_market_data_ticker logs an error and returns False; the shutdown    *)
(* timer is not armed, the lookup tables are not read, no access token is  *)
(* fetched, no feed client exists and no batch is written.                 *)
(***************************************************************************)
C10_PastCutoffRefused ==
    (/\ pc # "not_called"
     /\ SecondsOfDay(ShutdownTime(shutdown_hour, shutdown_minute)) < SecondsOfDay(now))
    => /\ pc = "returned_False"
       /\ errors_logged = <<"close time in the past">>
       /\ shutdown_timer = "unarmed"
       /\ ~catalog_loaded
       /\ access_token = "not_fetched"
       /\ kws = "unbound"
       /\ writes = 0
       /\ daily_table = <<>>

\* called at 16:00:00 with close time 15:35
C10_Witness ==
    /\ pc = "returned_False"
    /\ now = [hour |-> 16, minute |-> 0, second |-> 0]
    /\ shutdown_hour = 15
    /\ shutdown_minute = 35


(***************************************************************************)
(* C11: when get_latest_access_token returns no token, the session ends in *)
(* an error-terminal state: run_market_data_ticker returns without having  *)
(* created the feed client, nothing is connected, subscribed or written,   *)
(* and the failure is logged and mailed.                                   *)
(* Violated: the lookup tables are read before the token is fetched, and   *)
(* reading them raises NameError (see C12); the call ends with that        *)
(* exception, which run_market_data_ticker neither logs nor mails.         *)
(***************************************************************************)
C11_NoCredentialReported ==
    (Called /\ FutureCutoff /\ broker_tokens = <<>>) =>
        /\ pc = "returned_None"
        /\ kws = "unbound"
        /\ connections = 0
        /\ requests = <<>>
        /\ writes = 0
        /\ Contains(errors_logged, "Dump Failed")
        /\ Contains(mails, "Dump Failed")

(***************************************************************************)
(* C12: a session started with a close time in the future and an access    *)
(* token in the database loads the catalog, opens the feed connection and, *)
(* on connect, sends one subscribe request for the full token list and     *)
(* sets FULL mode for that list.                                           *)
(* Violated: path.join raises NameError at the first lookup table, outside *)
(* every try block; no catalog is loaded and no connection is opened.      *)
(***************************************************************************)
C12_StartConnectsAndSubscribes ==
    (Called /\ FutureCutoff /\ broker_tokens # <<>>) =>
        /\ catalog_loaded
        /\ kws # "unbound"
        /\ connections >= 1
        /\ requests = <<subscribe(full_token_list),
                        set_mode(MODE_FULL, full_token_list)>>

(***************************************************************************)
(* C13: on every connection the feed client opens, the first one and each  *)
(* reconnect, on_connect sends the subscription for the full token list    *)
(* and sets FULL mode for it; no batch is handled on a connection that     *)
(* does not carry that subscription.                                       *)
(***************************************************************************)
C13_ResubscribedOnReconnect ==
    /\ kws = "connected" =>
          requests = <<subscribe(full_token_list),
                       set_mode(MODE_FULL, full_token_list)>>
    /\ \A i \in 1..Len(in_flight) : \A j \in 1..Len(in_flight[i]) :
          PoolTick[in_flight[i][j]]["instrument_token"] \in SubscribedTokens(requests)

\* a batch is being handled on the second connection
C13_Witness ==
    /\ connections = 2
    /\ kws = "connected"
    /\ in_flight # <<>>

(***************************************************************************)
(* C14: the timer armed at session start fires at the close time and       *)
(* invokes stop on the feed connection, so that a session whose timer has  *)
(* fired is stopping or stopped, and no batch is written afterwards.       *)
(* Violated: the call ends with NameError after the timer was armed (see   *)
(* C12); when the timer fires there is no feed client, kws.stop() raises   *)
(* and the session is never Stopped.                                       *)
(***************************************************************************)
C14_ScheduledShutdown ==
    shutdown_timer = "fired" =>
        /\ kws \in {"stopping", "stopped"}
        /\ ~Contains(errors_logged, "Ticker Could not be stopped")

(***************************************************************************)
(* C15: once the shutdown timer has invoked stop, the session stays        *)
(* stopping or stopped: no disconnect, callback or reconnect brings it     *)
(* back to a connection; no connection is opened, no request is sent and   *)
(* no batch is taken.                                                      *)
(***************************************************************************)
C15_ShutdownTerminal ==
    /\ [](StopInvoked => kws \in {"stopping", "stopped"})
    /\ [][StopInvoked =>
            /\ kws' \in {"stopping", "stopped"}
            /\ connections' = connections
            /\ requests' = requests
            /\ Len(in_flight') <= Len(in_flight)]_vars

\* stopped after a reconnect and a write
C15_Witness ==
    /\ StopInvoked
    /\ kws = "stopped"
    /\ connections = 2
    /\ writes >= 1

(***************************************************************************)
(* C16: a shutdown that fires while bulk_replace is running does not       *)
(* interrupt it.  The session is stopped only when no call is in flight,   *)
(* and the last write before the stop took effect as a whole: every row of *)
(* the batch, or none.                                                     *)
(***************************************************************************)
C16_ShutdownWaitsForWrite ==
    /\ kws = "stopped" => in_flight = <<>>
    /\ kws = "stopping" => in_flight # <<>>
    /\ (kws = "stopped" /\ writes >= 1) =>
          daily_table =
              IF last_outcome = "ok"
              THEN ExecuteMany(prev_table, DataFrameKeys(LastTicks),
                               DataFrameRows(LastTicks), Len(LastTicks))
              ELSE prev_table

\* the timer has fired while a write was in flight over a non-empty table
C16_Witness ==
    /\ shutdown_timer = "fired"
    /\ kws = "stopping"
    /\ in_flight # <<>>
    /\ daily_table # <<>>

(***************************************************************************)
(* C17: batches are handled one at a time in arrival order.  At most one   *)
(* bulk_replace call is in flight; when none is, the batch written last is *)
(* the batch received last; and for a key that an earlier batch had        *)
(* stored, the values the later batch carries are the stored ones.         *)
(***************************************************************************)
C17_SequentialBatches ==
    /\ Len(in_flight) <= 1
    /\ (in_flight = <<>> /\ writes >= 1) => last_batch = last_received
    /\ (in_flight = <<>> /\ last_outcome = "ok") =>
          \A i \in 1..Len(LastTicks) :
              (LastWithKey(LastTicks, i) /\ WrittenBefore(prev_table, LastTicks, i)) =>
                  /\ StoredOnce(daily_table, LastTicks[i])
                  /\ \A col \in TableColumns :
                        CanonicalRow(LastTicks[i])[col] # NULL =>
                            StoredRow(daily_table, LastTicks[i])[col]
                                = CanonicalRow(LastTicks[i])[col]

\* the second batch overwrote the row the first batch stored
C17_Witness ==
    /\ writes = 2
    /\ in_flight = <<>>
    /\ last_outcome = "ok"
    /\ Len(prev_table) = 1
    /\ Len(daily_table) = 1
    /\ daily_table # prev_table

(***************************************************************************)
(* C18: market_data_main calls the pre-checks in order (holiday, config    *)
(* defaults, access token, equity universe, lookup tables); a check that   *)
(* does not pass is the last function the block calls, and the process     *)
(* ends there; the ticker and the backup are called only after all five    *)
(* checks passed.                                                          *)
(***************************************************************************)
C18_TickerOnlyAfterPreChecks ==
    main_pc # "not_started" =>
        /\ \A k \in 1..Len(main_steps) :
              k <= Len(PreCheckOrder) =>
                  /\ main_steps[k] = PreCheckOrder[k]
                  /\ ~Passed(k) =>
                        /\ Len(main_steps) = k
                        /\ main_pc \in {"exited", "failed"}
        /\ \A k \in 1..Len(main_steps) :
              main_steps[k] \in {"run_market_data_ticker",
                                 "run_daily_market_data_backup"} =>
                  /\ k > Len(PreCheckOrder)
                  /\ \A j \in 1..Len(PreCheckOrder) : Passed(j)

\* the access-token request failed after two checks passed: the process
\* has exited and nothing else was called
C18_Witness ==
    /\ main_pc = "exited"
    /\ Len(main_steps) = 3
    /\ checks.access_token_success = "False"
    /\ Contains(mails, "broker_access_token_request Failed")

(***************************************************************************)
(* C19: run_daily_market_data_backup drops daily_table only when every     *)
(* subscribed instrument token with rows in daily_table is recorded in     *)
(* backup_success_tables; when the backup of such a token has failed,      *)
(* daily_table is left as it is and the function returns False; it returns *)
(* True only after daily_table was dropped.                                *)
(***************************************************************************)
C19_DropOnlyAfterFullBackup ==
    /\ daily_table_dropped => SubscribedWithRows \subseteq backup_success_tokens
    /\ (BackupReturned /\ ~(SubscribedWithRows \subseteq backup_success_tokens))
          => (~daily_table_dropped /\ backup_pc = "returned_False")
    /\ backup_pc = "returned_True" => daily_table_dropped

\* a backup that recorded no success for a subscribed token with rows has
\* returned
C19_Witness ==
    /\ BackupReturned
    /\ \E t \in SubscribedWithRows : t \notin backup_success_tokens
    /\ backup_pc = "returned_False"
    /\ ~daily_table_dropped

(***************************************************************************)
(* C20: request_broker_access_token returns True only if an access token   *)
(* was obtained and stored in this call, or a login attempt failed and the *)
(* latest token of the database is fresh (created after 08:00 today); when *)
(* each of the RETRY_COUNT login attempts has failed and the stored token  *)
(* is not fresh, it has returned False, after the failure mail, and has    *)
(* not raised.                                                             *)
(***************************************************************************)
C20_TokenRequestResult ==
    /\ request_pc = "returned_True" =>
          \/ token_stored
          \/ (failed_logins >= 1 /\ LatestTokenFresh)
    /\ (failed_logins = RETRY_COUNT /\ ~LatestTokenFresh) =>
          /\ request_pc = "returned_False"
          /\ Contains(mails, "Access token Failed")

\* five login attempts have failed with no fresh token in the database
C20_Witness ==
    /\ failed_logins = RETRY_COUNT
    /\ ~LatestTokenFresh
    /\ ~token_stored
    /\ request_pc = "returned_False"

(***************************************************************************)
(* C21: the fallback chain of the holiday list.  On a weekday without a    *)
(* fresh local file: the answer comes from the Upstox list when Upstox     *)
(* yields one; from the NSE list when Upstox yields nothing and NSE yields *)
(* one; when Upstox yields nothing and NSE fails, from the local file, and *)
(* the date is not a holiday when there is no local file; and              *)
(* check_trading_holiday does not raise.                                   *)
(* Violated: when NSE fails, retry_on_failure raises its last exception    *)
(* through get_holiday_list and check_trading_holiday.                     *)
(***************************************************************************)
C21_HolidayFallback ==
    (HolidayDone /\ HolidayListFetched) =>
        LET upstox == holiday_inputs.upstox
            nse    == holiday_inputs.nse
        IN  /\ holiday_pc # "raised"
            /\ upstox.list # {} => AnsweredFrom(upstox.list)
            /\ (upstox.list = {} /\ nse.list # {}) => AnsweredFrom(nse.list)
            /\ (upstox.list = {} /\ SourceFailed(nse, nse_max_attempts)) =>
                  AnsweredFrom(IF holiday_file.exists /\ holiday_file.readable
                               THEN holiday_file.dates ELSE {})

(***************************************************************************)
(* C22: a batch with a tick whose depth sub-record has fewer than 5 levels *)
(* on a side, every tick of it carrying an ohlc sub-record, is written     *)
(* (unless the database fails): the row of the short tick holds the levels *)
(* it carried and NULL in the columns of the missing levels, and every     *)
(* tick of the batch has a stored row.                                     *)
(* Violated: extract_value indexes the side list at each of the 5          *)
(* positions; a missing level raises IndexError and bulk_replace discards  *)
(* the batch.                                                              *)
(***************************************************************************)
C22_ShortDepthFlattened ==
    (/\ writes >= 1
     /\ last_outcome # "write_error"
     /\ \E i \in 1..Len(LastTicks) : ShortDepth(LastTicks[i])
     /\ \A i \in 1..Len(LastTicks) : HasOhlc(LastTicks[i])) =>
        /\ last_outcome = "ok"
        /\ \A i \in 1..Len(LastTicks) :
              /\ RowsWithKey(daily_table, TickToken(LastTicks[i]),
                             TickTime(LastTicks[i])) # {}
              /\ (ShortDepth(LastTicks[i]) /\ LastWithKey(LastTicks, i)) =>
                    /\ StoredOnce(daily_table, LastTicks[i])
                    /\ \A col \in DepthColumns :
                          StoredRow(daily_table, LastTicks[i])[col]
                              = CanonicalRow(LastTicks[i])[col]

(***************************************************************************)
(* C23: no session starts with a run duration that is not positive.        *)
(* Called at a time for which (close time - now) <= 0 seconds, 0 included, *)
(* run_market_data_ticker returns False and nothing of a session exists:   *)
(* no timer, no catalog, no token, no feed client.                         *)
(* Violated: the guard is run_duration < 0; called at the close time       *)
(* itself the function arms the timer and goes on.                         *)
(***************************************************************************)
C23_NoSessionWithoutDuration ==
    (Called /\ RunDuration(now, shutdown_hour, shutdown_minute) <= 0) =>
        /\ pc = "returned_False"
        /\ shutdown_timer = "unarmed"
        /\ ~catalog_loaded
        /\ access_token = "not_fetched"
        /\ kws = "unbound"

(***************************************************************************)
(* C24: every failure that is fatal to the start of a session (the call    *)
(* found the close time in the past, or the token lookup found no access   *)
(* token) and every failed batch write is both logged as an error and      *)
(* mailed to the operator.                                                 *)
(* Violated: the close time in the past is logged and handed to            *)
(* ErrorHandler.handle_error, whose should_notify is False; no mail is     *)
(* sent.                                                                   *)
(***************************************************************************)
C24_FailuresLoggedAndMailed ==
    /\ (Called /\ ~FutureCutoff) =>
          (errors_logged # <<>> /\ mails # <<>>)
    /\ access_token = "none" =>
          (errors_logged # <<>> /\ mails # <<>>)
    /\ last_outcome \in {"normalize_error", "write_error"} =>
          /\ Contains(errors_logged, "bulk_replace failed")
          /\ Contains(mails, "Dump Failed")

(***************************************************************************)
(* C25: the stop of the shutdown timer is safe in every session state.  A  *)
(* step in which the timer fires changes neither the catalog nor           *)
(* daily_table; when the session has no feed client (the start failed      *)
(* after the timer was armed) or the client has stopped, the step changes  *)
(* nothing else and reports no stop failure: nothing is logged as an error *)
(* and nothing is mailed.                                                  *)
(* Violated: with kws unbound, kws.stop() raises NameError and the except  *)
(* clause logs and mails 'Ticker Could not be stopped'.                    *)
(***************************************************************************)
C25_StopSafeInEveryState ==
    [][(shutdown_timer = "armed" /\ shutdown_timer' = "fired") =>
          /\ catalog_loaded' = catalog_loaded
          /\ daily_table' = daily_table
          /\ kws \in {"unbound", "stopped"} =>
                /\ kws' = kws
                /\ pc' = pc
                /\ errors_logged' = errors_logged
                /\ mails' = mails]_vars

(***************************************************************************)
(* C26: the wrapper of retry_on_failure(max_attempts = n, delay = d), with *)
(* n >= 1, calls the function at most n times; every call before the last  *)
(* one made raised a listed exception; when a call has returned the        *)
(* wrapper has returned its value; the wrapper has slept d after each      *)
(* failed call that another call follows, and at no other time; and when n *)
(* calls have raised a listed exception the wrapper has raised the         *)
(* exception of the n-th.                                                  *)
(***************************************************************************)
C26_RetryOnFailure ==
    LET n     == retry_inputs.max_attempts
        calls == Len(retry_log)
    IN  (retry_pc \in {"loop", "returned", "raised"} /\ n >= 1) =>
           /\ calls <= n
           /\ \A k \in 1..(calls - 1) : RaisedListed(k)
           /\ (calls >= 1 /\ retry_log[calls].kind = "return") =>
                 (retry_pc = "returned" /\ retry_result = retry_log[calls])
           /\ retry_pc = "returned" => retry_log[calls].kind = "return"
           /\ retry_slept = IF retry_pc = "loop" THEN 1..calls ELSE 1..(calls - 1)
           /\ retry_waited = retry_inputs.delay * Cardinality(retry_slept)
           /\ (calls = n /\ \A k \in 1..n : RaisedListed(k)) =>
                 (retry_pc = "raised" /\ retry_result = retry_log[n])

\* every one of three attempts raised a listed exception
C26_Witness ==
    /\ retry_pc = "raised"
    /\ retry_inputs.max_attempts = MaxAttempts
    /\ Len(retry_log) = MaxAttempts
    /\ \A k \in 1..MaxAttempts : RaisedListed(k)
    /\ retry_result = retry_log[MaxAttempts]
    /\ retry_slept = 1..(MaxAttempts - 1)

(***************************************************************************)
(* C27: when every pre-check has passed and the main block has ended, the  *)
(* ticker was called; and whenever the backup was called, the ticker was   *)
(* called before it and had returned from a session that ran and stopped.  *)
(* Violated: the message built before the call uses market_close_hour,     *)
(* which market_data_main does not bind; NameError sends the block to its  *)
(* except clause and neither the ticker nor the backup is called.          *)
(***************************************************************************)
C27_BackupAfterStoppedSession ==
    /\ (main_pc \in {"done", "failed", "exited"}
          /\ \A k \in 1..Len(PreCheckOrder) : Passed(k)) =>
          Contains(main_steps, "run_market_data_ticker")
    /\ Contains(main_steps, "run_daily_market_data_backup") =>
          /\ \E i, j \in 1..Len(main_steps) :
                /\ i < j
                /\ main_steps[i] = "run_market_data_ticker"
                /\ main_steps[j] = "run_daily_market_data_backup"
          /\ checks.run_market_data_ticker = "stopped"


(***************************************************************************)
(* C28: DatabaseManager is a singleton with one pool.  All threads that    *)
(* have an object back from DatabaseManager(...) have the same object,     *)
(* whatever their arguments and however their constructions interleave;    *)
(* one connection pool at most was ever created, and it is the pool of     *)
(* that object, created with the arguments of the first construction that  *)
(* created one.                                                            *)
(***************************************************************************)
C28_SingletonSinglePool ==
    /\ \A t, u \in Threads :
          Constructed(t) /\ Constructed(u) => threads[t].self = threads[u].self
    /\ Len(pools) <= 1
    /\ \A t \in Threads :
          Constructed(t) => instance_pool[threads[t].self] = 1


(***************************************************************************)
(* C29: no tick row is lost by the backup.  When                           *)
(* run_daily_market_data_backup has dropped daily_table, every row that    *)
(* was in it, of whatever instrument token, is in the per-instrument table *)
(* of its token.                                                           *)
(***************************************************************************)
C29_NoRowLost ==
    daily_table_dropped =>
       \A i \in 1..Len(daily_table) : RowCopied(daily_table[i])

(***************************************************************************)
(* C30: in backup_one_instrument the copy and the entry are committed      *)
(* together.  A token with rows in daily_table has an entry in             *)
(* backup_success_tables exactly when all its rows are in its              *)
(* per-instrument table, and a token whose workers have all failed has     *)
(* neither an entry nor a copied row.                                      *)
(***************************************************************************)
C30_CopyAndEntryTogether ==
    \A token \in instrument_tokens_to_store(daily_table) :
       /\ HasSuccessEntry(token) <=> AllRowsCopied(token)
       /\ (WorkerEnded(token, "failed") /\ ~WorkerEnded(token, "committed")) =>
             /\ ~HasSuccessEntry(token)
             /\ instrument_tables[token] = <<>>

\* one worker has committed the rows of a token and its entry, and a worker
\* of a token without a committed worker has failed after its INSERT ...
\* SELECT had run
C30_Witness ==
    /\ \E token \in instrument_tokens_to_store(daily_table) :
          /\ WorkerEnded(token, "committed")
          /\ HasSuccessEntry(token)
          /\ AllRowsCopied(token)
    /\ \E i \in 1..Len(worker_calls) :
          /\ worker_calls[i].outcome = "failed"
          /\ worker_calls[i].reached >= 3
          /\ ~WorkerEnded(worker_calls[i].token, "committed")

=============================================================================
